---- MODULE Spec2Model ----
(***************************************************************************)
(* acbench::ringbuffer<T> (src/acbench/ringbuffer.h): a fixed-capacity     *)
(* circular buffer with bulk push/pop.  Each buffer is a record of the     *)
(* class's fields; every member function is an operator from a buffer to   *)
(* the set of outcomes the call can have (more than one outcome only where *)
(* the code reads a slot outside its block), and an action per public      *)
(* entry point applies it.  A std::deque driven by the same calls, as in   *)
(* ringbuffer_test.cpp, is kept next to each buffer.                       *)
(***************************************************************************)
EXTENDS Integers, Sequences, FiniteSets, TLC

\* ---- bounds ----
MaxCap == 2          \* largest capacity passed to resize_allocation / reserve
MaxVal == 1          \* elements are drawn from 0..MaxVal

Val == 0 .. MaxVal
Bufs == {1, 2}       \* two ringbuffer objects
Threads == {1, 2}    \* two threads calling into the buffers
Caps == 1 .. MaxCap
Counts == (0 - 1) .. (MaxCap + 1)     \* the int n of the bulk calls

VARIABLES rb, ref, ret, out, oob, phase, exp, ptr, m_mutex, pc
vars == <<rb, ref, ret, out, oob, phase, exp, ptr, m_mutex, pc>>

\* ---- helpers over memory blocks ----
Min(a, b) == IF a < b THEN a ELSE b

\* all arrays of n elements (n <= 0: the empty array)
Arrays(n) == [1 .. n -> Val]

\* the contents a freshly allocated block can have: new T[n] leaves floats
\* uninitialized
Blocks(n) == [0 .. (n - 1) -> Val]

InBlock(b, i) == i >= 0 /\ i < b.m_size_max

\* m_data[i] = v; a store outside the block does not land in the block
Store(data, i, v) == [k \in DOMAIN data |-> IF k = i THEN v ELSE data[k]]

\* the values a read of m_data[i] can give: the slot, or anything when i is
\* outside the block
ReadSlot(b, i) == IF InBlock(b, i) THEN {b.m_data[i]} ELSE Val

\* the runs a read of m_data[off .. off+n-1] can give
ReadRun(b, off, n) ==
    {s \in Arrays(n) : \A k \in 1 .. n : s[k] \in ReadSlot(b, off + k - 1)}

\* does the run [off, off+n) leave the block
RunOOB(b, off, n) == n > 0 /\ (off < 0 \/ off + n > b.m_size_max)

\* memory_copy_nolock(m_data+off, src, size) with the source run already
\* read into vals: size == 0 returns, otherwise memcpy
memory_copy_nolock(data, off, vals) ==
    [k \in DOMAIN data |->
        IF k >= off /\ k < off + Len(vals) THEN vals[k - off + 1] ELSE data[k]]

\* ---- the object ----
NewBuf == [m_size_max |-> 0, m_size |-> 0, m_data |-> << >>,
           m_front |-> 0, m_end |-> 0]

\* the result of one call: the buffer afterwards, whether the call touched a
\* slot outside the block, the returned value (<<>> for void) and the array
\* pop_front(array, n) filled
Outcome(b, o, r, a) == [b |-> b, oob |-> o, ret |-> r, out |-> a]

MutMemoryCheckSize(b, nb_new_values) ==
    nb_new_values > 0 /\ b.m_size + nb_new_values <= b.m_size_max + 1

memory_check_size_nolock(b, nb_new_values) ==
    nb_new_values > 0 /\ b.m_size + nb_new_values <= b.m_size_max

clear_nolock(b) == [b EXCEPT !.m_front = 0, !.m_end = 0, !.m_size = 0]

MutClear(b) ==
    {Outcome(clear_nolock([b EXCEPT !.m_size_max = 0, !.m_data = << >>]),
             FALSE, <<>>, <<>>)}

clear(b) == {Outcome(clear_nolock(b), FALSE, <<>>, <<>>)}

MutResizeAllocation(b, size_max) ==
    IF size_max = b.m_size_max
    THEN {Outcome(b, FALSE, <<>>, <<>>)}
    ELSE {Outcome(clear_nolock([b EXCEPT !.m_data = blk, !.m_size_max = size_max]),
                  FALSE, <<>>, <<>>) : blk \in Blocks(size_max)}

\* resize_allocation(size_max): same capacity only clears; otherwise a new
\* block (uninitialized) replaces the old one
resize_allocation(b, size_max) ==
    IF size_max = b.m_size_max
    THEN {Outcome(clear_nolock(b), FALSE, <<>>, <<>>)}
    ELSE {Outcome(clear_nolock([b EXCEPT !.m_data = blk, !.m_size_max = size_max]),
                  FALSE, <<>>, <<>>) : blk \in Blocks(size_max)}

MutReserve(b, size_max) ==
    IF size_max < b.m_size_max
    THEN {Outcome(b, FALSE, <<>>, <<>>)}
    ELSE {Outcome([b EXCEPT !.m_data = memory_copy_nolock(blk, 0, run),
                            !.m_size_max = size_max],
                  RunOOB(b, 0, b.m_size), <<>>, <<>>) :
             blk \in Blocks(size_max), run \in ReadRun(b, 0, b.m_size)}

\* reserve(size_max): the first m_size physical slots are copied to the new
\* block; m_front and m_end are left as they are
reserve(b, size_max) ==
    IF size_max <= b.m_size_max
    THEN {Outcome(b, FALSE, <<>>, <<>>)}
    ELSE {Outcome([b EXCEPT !.m_data = memory_copy_nolock(blk, 0, run),
                            !.m_size_max = size_max],
                  RunOOB(b, 0, b.m_size), <<>>, <<>>) :
             blk \in Blocks(size_max), run \in ReadRun(b, 0, b.m_size)}

\* ---- accessors ----
capacity(b) == b.m_size_max
size(b) == b.m_size
empty(b) == b.m_size = 0
front_data_index(b) == b.m_front
back_data_index(b) == IF b.m_end - 1 < 0 THEN b.m_size_max - 1 ELSE b.m_end - 1
\* front(), back(): the values the call can return
front(b) == ReadSlot(b, b.m_front)
back(b) == ReadSlot(b, back_data_index(b))
\* operator[](n)
at(b, n) == b.m_data[(b.m_front + n) % b.m_size_max]

\* the logical content operator[] shows
Content(b) == [i \in 1 .. b.m_size |-> at(b, i - 1)]

\* ---- push_back ----
push_back_nolock(b, v) ==
    LET e1 == b.m_end + 1
        e2 == IF e1 >= b.m_size_max THEN 0 ELSE e1
    IN {Outcome([b EXCEPT !.m_data = Store(b.m_data, b.m_end, v),
                          !.m_end = e2, !.m_size = @ + 1],
                ~InBlock(b, b.m_end), <<>>, <<>>)}

\* the run of k copies of value that the fill loop writes
Fill(value, k) == [i \in 1 .. k |-> value]

push_back_nolock_value(b, value, nb_values) ==
    IF nb_values <= 0 THEN {Outcome(b, FALSE, <<>>, <<>>)}
    ELSE IF b.m_end + nb_values <= b.m_size_max
    THEN {Outcome([b EXCEPT !.m_data = memory_copy_nolock(b.m_data, b.m_end,
                                                          Fill(value, nb_values)),
                            !.m_end = @ + nb_values, !.m_size = @ + nb_values],
                  RunOOB(b, b.m_end, nb_values), <<>>, <<>>)}
    ELSE LET seg1size == b.m_size_max - b.m_end
             seg2size == nb_values - seg1size
             d1 == memory_copy_nolock(b.m_data, b.m_end, Fill(value, seg1size))
             d2 == memory_copy_nolock(d1, 0, Fill(value, seg2size))
         IN {Outcome([b EXCEPT !.m_data = d2, !.m_end = seg2size,
                               !.m_size = @ + nb_values],
                     RunOOB(b, b.m_end, seg1size) \/ RunOOB(b, 0, seg2size),
                     <<>>, <<>>)}

\* push_back(array, array_size): the first array_size elements of array
push_back_nolock_array(b, array, array_size) ==
    IF array_size <= 0 THEN {Outcome(b, FALSE, <<>>, <<>>)}
    ELSE IF b.m_end + array_size <= b.m_size_max
    THEN {Outcome([b EXCEPT !.m_data = memory_copy_nolock(b.m_data, b.m_end,
                                                          SubSeq(array, 1, array_size)),
                            !.m_end = @ + array_size, !.m_size = @ + array_size],
                  RunOOB(b, b.m_end, array_size), <<>>, <<>>)}
    ELSE LET seg1size == b.m_size_max - b.m_end
             seg2size == array_size - seg1size
             d1 == memory_copy_nolock(b.m_data, b.m_end, SubSeq(array, 1, seg1size))
             d2 == memory_copy_nolock(d1, 0, SubSeq(array, seg1size + 1, array_size))
         IN {Outcome([b EXCEPT !.m_data = d2, !.m_end = seg2size,
                               !.m_size = @ + array_size],
                     RunOOB(b, b.m_end, seg1size) \/ RunOOB(b, 0, seg2size),
                     <<>>, <<>>)}

\* push_back(rb): the source run is read in one or two segments and written
\* in one or two segments, three copies when both are split
push_back_nolock_rb(b, src) ==
    IF size(src) = 0 THEN {Outcome(b, FALSE, <<>>, <<>>)}
    ELSE IF b.m_end + src.m_size <= b.m_size_max
    THEN \* the destination segment is continuous
         IF src.m_front + src.m_size <= src.m_size_max
         THEN {Outcome([b EXCEPT !.m_data = memory_copy_nolock(b.m_data, b.m_end, s1),
                                 !.m_end = @ + src.m_size, !.m_size = @ + src.m_size],
                       RunOOB(b, b.m_end, src.m_size)
                           \/ RunOOB(src, src.m_front, src.m_size), <<>>, <<>>) :
                  s1 \in ReadRun(src, src.m_front, src.m_size)}
         ELSE LET seg1size == src.m_size_max - src.m_front
                  seg2size == src.m_size - seg1size
              IN {Outcome([b EXCEPT !.m_data =
                                memory_copy_nolock(
                                    memory_copy_nolock(b.m_data, b.m_end, s1),
                                    b.m_end + seg1size, s2),
                                    !.m_end = @ + src.m_size, !.m_size = @ + src.m_size],
                          RunOOB(b, b.m_end, seg1size)
                              \/ RunOOB(b, b.m_end + seg1size, seg2size)
                              \/ RunOOB(src, src.m_front, seg1size)
                              \/ RunOOB(src, 0, seg2size), <<>>, <<>>) :
                     s1 \in ReadRun(src, src.m_front, seg1size),
                     s2 \in ReadRun(src, 0, seg2size)}
    ELSE \* the destination segment is made of two continuous segments
         IF src.m_front + src.m_size <= src.m_size_max
         THEN LET seg1size == b.m_size_max - b.m_end
                  seg2size == src.m_size - seg1size
              IN {Outcome([b EXCEPT !.m_data =
                                memory_copy_nolock(
                                    memory_copy_nolock(b.m_data, b.m_end, s1), 0, s2),
                                    !.m_end = seg2size, !.m_size = @ + src.m_size],
                          RunOOB(b, b.m_end, seg1size)
                              \/ RunOOB(b, 0, seg2size)
                              \/ RunOOB(src, src.m_front, seg1size)
                              \/ RunOOB(src, src.m_front + seg1size, seg2size),
                          <<>>, <<>>) :
                     s1 \in ReadRun(src, src.m_front, seg1size),
                     s2 \in ReadRun(src, src.m_front + seg1size, seg2size)}
         ELSE IF (src.m_size_max - src.m_front) < (b.m_size_max - b.m_end)
         THEN \* the source's break point comes first
              LET seg1size == src.m_size_max - src.m_front
                  seg2size == (b.m_size_max - b.m_end) - seg1size
                  seg3size == src.m_size - seg1size - seg2size
              IN {Outcome([b EXCEPT !.m_data =
                                memory_copy_nolock(
                                    memory_copy_nolock(
                                        memory_copy_nolock(b.m_data, b.m_end, s1),
                                        b.m_end + seg1size, s2),
                                    0, s3),
                                    !.m_end = seg3size, !.m_size = @ + src.m_size],
                          RunOOB(b, b.m_end, seg1size)
                              \/ RunOOB(b, b.m_end + seg1size, seg2size)
                              \/ RunOOB(b, 0, seg3size)
                              \/ RunOOB(src, src.m_front, seg1size)
                              \/ RunOOB(src, 0, seg2size)
                              \/ RunOOB(src, seg2size, seg3size), <<>>, <<>>) :
                     s1 \in ReadRun(src, src.m_front, seg1size),
                     s2 \in ReadRun(src, 0, seg2size),
                     s3 \in ReadRun(src, seg2size, seg3size)}
         ELSE \* the destination's break point comes first
              LET seg1size == b.m_size_max - b.m_end
                  seg2size == (src.m_size_max - src.m_front) - seg1size
                  seg3size == src.m_size - seg1size - seg2size
              IN {Outcome([b EXCEPT !.m_data =
                                memory_copy_nolock(
                                    memory_copy_nolock(
                                        memory_copy_nolock(b.m_data, b.m_end, s1),
                                        0, s2),
                                    seg2size, s3),
                                    !.m_end = seg2size + seg3size,
                                    !.m_size = @ + src.m_size],
                          RunOOB(b, b.m_end, seg1size)
                              \/ RunOOB(b, 0, seg2size)
                              \/ RunOOB(b, seg2size, seg3size)
                              \/ RunOOB(src, src.m_front, seg1size)
                              \/ RunOOB(src, src.m_front + seg1size, seg2size)
                              \/ RunOOB(src, 0, seg3size), <<>>, <<>>) :
                     s1 \in ReadRun(src, src.m_front, seg1size),
                     s2 \in ReadRun(src, src.m_front + seg1size, seg2size),
                     s3 \in ReadRun(src, 0, seg3size)}

\* operator=(rb): clear, then push_back(rb)
assign(b, src) == push_back_nolock_rb(clear_nolock(b), src)

\* ---- pop_front ----
pop_front_nolock(b) ==
    LET f1 == b.m_front + 1
        f2 == IF f1 >= b.m_size_max THEN 0 ELSE f1
    IN {Outcome([b EXCEPT !.m_front = f2, !.m_size = @ - 1],
                ~InBlock(b, b.m_front), <<value>>, <<>>) :
           value \in ReadSlot(b, b.m_front)}

MutPopFrontNClear(b, n) ==
    IF n < 1 THEN {Outcome(b, FALSE, <<>>, <<>>)}
    ELSE IF n > b.m_size THEN {Outcome(clear_nolock(b), FALSE, <<>>, <<>>)}
    ELSE LET f1 == b.m_front + n
             f2 == IF f1 >= b.m_size_max THEN f1 - b.m_size_max ELSE f1
         IN {Outcome([b EXCEPT !.m_front = f2, !.m_size = @ - n], FALSE, <<>>, <<>>)}

MutPopFrontNZero(b, n) ==
    IF n >= b.m_size THEN {Outcome(clear_nolock(b), FALSE, <<>>, <<>>)}
    ELSE LET f1 == b.m_front + n
             f2 == IF f1 >= b.m_size_max THEN f1 - b.m_size_max ELSE f1
         IN {Outcome([b EXCEPT !.m_front = f2, !.m_size = @ - n], FALSE, <<>>, <<>>)}

pop_front_nolock_n(b, n) ==
    IF n < 1 THEN {Outcome(b, FALSE, <<>>, <<>>)}
    ELSE IF n >= b.m_size THEN {Outcome(clear_nolock(b), FALSE, <<>>, <<>>)}
    ELSE LET f1 == b.m_front + n
             f2 == IF f1 >= b.m_size_max THEN f1 - b.m_size_max ELSE f1
         IN {Outcome([b EXCEPT !.m_front = f2, !.m_size = @ - n], FALSE, <<>>, <<>>)}

MutPopFrontArray(b, n0) ==
    IF n0 < 1 THEN {Outcome(b, FALSE, <<0>>, <<>>)}
    ELSE LET n == n0 IN
         IF b.m_front + n <= b.m_size_max
         THEN {Outcome([b EXCEPT !.m_front = @ + n, !.m_size = @ - n],
                       RunOOB(b, b.m_front, n), <<n>>, run) :
                  run \in ReadRun(b, b.m_front, n)}
         ELSE LET seg1size == b.m_size_max - b.m_front
                  seg2size == n - seg1size
              IN {Outcome([b EXCEPT !.m_front = seg2size, !.m_size = @ - n],
                          RunOOB(b, b.m_front, seg1size) \/ RunOOB(b, 0, seg2size),
                          <<n>>, s1 \o s2) :
                     s1 \in ReadRun(b, b.m_front, seg1size),
                     s2 \in ReadRun(b, 0, seg2size)}

pop_front_nolock_array(b, n0) ==
    IF n0 < 1 THEN {Outcome(b, FALSE, <<0>>, <<>>)}
    ELSE LET n == IF n0 > b.m_size THEN b.m_size ELSE n0 IN
         IF b.m_front + n <= b.m_size_max
         THEN {Outcome([b EXCEPT !.m_front = @ + n, !.m_size = @ - n],
                       RunOOB(b, b.m_front, n), <<n>>, run) :
                  run \in ReadRun(b, b.m_front, n)}
         ELSE LET seg1size == b.m_size_max - b.m_front
                  seg2size == n - seg1size
              IN {Outcome([b EXCEPT !.m_front = seg2size, !.m_size = @ - n],
                          RunOOB(b, b.m_front, seg1size) \/ RunOOB(b, 0, seg2size),
                          <<n>>, s1 \o s2) :
                     s1 \in ReadRun(b, b.m_front, seg1size),
                     s2 \in ReadRun(b, 0, seg2size)}

\* ---- pop_back ----
pop_back_nolock(b) ==
    LET e1 == b.m_end - 1
        e2 == IF e1 < 0 THEN b.m_size_max - 1 ELSE e1
    IN {Outcome([b EXCEPT !.m_end = e2, !.m_size = @ - 1],
                ~InBlock(b, back_data_index(b)), <<value>>, <<>>) :
           value \in ReadSlot(b, back_data_index(b))}

MutPopBackN(b, n) ==
    IF n < 1 THEN {Outcome(b, FALSE, <<>>, <<>>)}
    ELSE IF n >= b.m_size THEN {Outcome(clear_nolock(b), FALSE, <<>>, <<>>)}
    ELSE {Outcome([b EXCEPT !.m_end = @ - n, !.m_size = @ - n],
                  FALSE, <<>>, <<>>)}

pop_back_nolock_n(b, n) ==
    IF n < 1 THEN {Outcome(b, FALSE, <<>>, <<>>)}
    ELSE IF n >= b.m_size THEN {Outcome(clear_nolock(b), FALSE, <<>>, <<>>)}
    ELSE LET e1 == b.m_end - n
             e2 == IF e1 < 0 THEN e1 + b.m_size_max ELSE e1
         IN {Outcome([b EXCEPT !.m_end = e2, !.m_size = @ - n], FALSE, <<>>, <<>>)}

\* ---- state machine ----
NoRet == [r \in Bufs |-> <<>>]
NoOOB == [r \in Bufs |-> FALSE]
NoExp == [st |-> "none", seq |-> <<>>]
\* a thread that is in no call and holds no mutex
Idle == [at |-> "idle", op |-> "none", self |-> 0, arg |-> 0, held |-> 0]

Init ==
    /\ rb = [r \in Bufs |-> NewBuf]
    /\ ref = [r \in Bufs |-> <<>>]
    /\ ret = NoRet
    /\ out = NoRet
    /\ oob = NoOOB
    /\ phase = "none"
    /\ exp = NoExp
    /\ ptr = [r \in Bufs |-> 0]
    /\ m_mutex = [r \in Bufs |-> 0]
    /\ pc = [t \in Threads |-> Idle]

\* a call: the member function, its count argument and the elements it pushes
Call(op, n, vals) == [op |-> op, n |-> n, vals |-> vals]

BulkPushOps == {"push_back_value", "push_back_array", "push_back_rb"}
PushOps == BulkPushOps \cup {"push_back"}

\* where the run of calls stands in the scenario of the test
\* ringbuffer_push_back_segment_m_end_wrap_bug: resize_allocation(C), a bulk
\* push of C elements, pop_front(array, C), push_back(v)
NextPhase(ph, c, b) ==
    IF c.op = "resize_allocation" THEN "fresh"
    ELSE IF ph = "fresh" /\ c.op \in BulkPushOps /\ Len(c.vals) = b.m_size_max
    THEN "full"
    ELSE IF ph = "full" /\ c.op = "pop_front_array" /\ c.n = b.m_size_max
    THEN "drained"
    ELSE IF ph = "drained" /\ c.op = "push_back" THEN "pushed"
    ELSE "none"

\* what a pop_front(array, size()) made right after a push has to deliver:
\* the content before the push followed by the pushed elements
NextExp(e, c, b) ==
    IF c.op \in PushOps
    THEN [st |-> "pushed", seq |-> Content(b) \o c.vals]
    ELSE IF e.st = "pushed" /\ c.op = "pop_front_array" /\ c.n = Len(e.seq)
    THEN [st |-> "popped", seq |-> e.seq]
    ELSE NoExp

\* the call c on buffer r had outcome o; the deque of r becomes d
Done(r, c, o, d) ==
    /\ rb' = [rb EXCEPT ![r] = o.b]
    /\ ref' = [ref EXCEPT ![r] = d]
    /\ ret' = [NoRet EXCEPT ![r] = o.ret]
    /\ out' = [NoRet EXCEPT ![r] = o.out]
    /\ oob' = [NoOOB EXCEPT ![r] = o.oob]
    /\ phase' = NextPhase(phase, c, rb[r])
    /\ exp' = NextExp(exp, c, rb[r])
    /\ UNCHANGED <<ptr, m_mutex, pc>>

\* std::deque operations of the tests' helpers
DropFront(d, n) == SubSeq(d, Min(n, Len(d)) + 1, Len(d))
DropBack(d, n) == SubSeq(d, 1, Len(d) - Min(n, Len(d)))

ResizeAllocation(r) ==
    \E n \in Caps : \E o \in resize_allocation(rb[r], n) :
        Done(r, Call("resize_allocation", n, <<>>), o, <<>>)

Clear(r) ==
    \E o \in clear(rb[r]) : Done(r, Call("clear", 0, <<>>), o, <<>>)

PushBack(r) ==
    \E v \in Val :
        /\ memory_check_size_nolock(rb[r], 1)
        /\ \E o \in push_back_nolock(rb[r], v) :
               Done(r, Call("push_back", 1, <<v>>), o, Append(ref[r], v))

PushBackValue(r) ==
    \E v \in Val, n \in Counts :
        /\ n > 0 => memory_check_size_nolock(rb[r], n)
        /\ \E o \in push_back_nolock_value(rb[r], v, n) :
               Done(r, Call("push_back_value", n, Fill(v, n)), o,
                    ref[r] \o Fill(v, n))

PushBackArray(r) ==
    \E n \in Counts : \E array \in Arrays(n) :
        /\ n > 0 => memory_check_size_nolock(rb[r], n)
        /\ \E o \in push_back_nolock_array(rb[r], array, n) :
               Done(r, Call("push_back_array", n, array), o, ref[r] \o array)

\* the allocated buffer of capacity c that holds content from physical
\* slot f on, as resize_allocation(c), push_back(v) and pop_front() build it
\* (the slots outside the content hold 0)
RingOf(c, f, content) ==
    [m_size_max |-> c, m_size |-> Len(content),
     m_data |-> [i \in 0 .. (c - 1) |->
                    IF (i - f + c) % c < Len(content)
                    THEN content[((i - f + c) % c) + 1] ELSE 0],
     m_front |-> f, m_end |-> (f + Len(content)) % c]

\* the ring buffers that hold copies of one value
ValueRings ==
    UNION {UNION {{RingOf(c, f, Fill(v, s)) : f \in 0 .. (c - 1), v \in Val} :
                     s \in 0 .. c} : c \in Caps}

\* the ring buffers passed as the argument of push_back(rb) and operator=
Rings ==
    UNION {UNION {{RingOf(c, f, content) : f \in 0 .. (c - 1),
                                            content \in Arrays(s)} :
                     s \in 0 .. c} : c \in Caps}

\* r.push_back(src); the deque receives src[i] for i < src.size()
PushBackRb(r, src) ==
    /\ size(src) > 0 => memory_check_size_nolock(rb[r], size(src))
    /\ \E o \in push_back_nolock_rb(rb[r], src) :
           Done(r, Call("push_back_rb", size(src), Content(src)), o,
                ref[r] \o Content(src))

PopFront(r) ==
    /\ rb[r].m_size >= 1
    /\ \E o \in pop_front_nolock(rb[r]) :
           Done(r, Call("pop_front", 1, <<>>), o, DropFront(ref[r], 1))

PopFrontN(r) ==
    \E n \in Counts : \E o \in pop_front_nolock_n(rb[r], n) :
        Done(r, Call("pop_front_n", n, <<>>), o,
             DropFront(ref[r], IF n < 0 THEN 0 ELSE n))

PopFrontArray(r) ==
    \E n \in Counts : \E o \in pop_front_nolock_array(rb[r], n) :
        Done(r, Call("pop_front_array", n, <<>>), o,
             DropFront(ref[r], IF n < 0 THEN 0 ELSE n))

PopBack(r) ==
    /\ rb[r].m_size >= 1
    /\ \E o \in pop_back_nolock(rb[r]) :
           Done(r, Call("pop_back", 1, <<>>), o, DropBack(ref[r], 1))

PopBackN(r) ==
    \E n \in Counts : \E o \in pop_back_nolock_n(rb[r], n) :
        Done(r, Call("pop_back_n", n, <<>>), o,
             DropBack(ref[r], IF n < 0 THEN 0 ELSE n))

Reserve(r) ==
    \E n \in Caps : \E o \in reserve(rb[r], n) :
        Done(r, Call("reserve", n, <<>>), o, ref[r])

\* r = src; the deque of r becomes the content src shows
Assign(r, src) ==
    /\ size(src) > 0 => memory_check_size_nolock(clear_nolock(rb[r]), size(src))
    /\ \E o \in assign(rb[r], src) :
           Done(r, Call("assign", size(src), <<>>), o, Content(src))

\* the calls on one fixed-capacity buffer
NextFixed ==
    \/ ResizeAllocation(1)
    \/ Clear(1)
    \/ PushBack(1)
    \/ PushBackValue(1)
    \/ PushBackArray(1)
    \/ \E src \in Rings : PushBackRb(1, src)
    \/ PopFront(1)
    \/ PopFrontN(1)
    \/ PopFrontArray(1)
    \/ PopBack(1)
    \/ PopBackN(1)

SpecFixed == Init /\ [][NextFixed]_vars

\* all calls on one buffer
Next ==
    \/ NextFixed
    \/ Reserve(1)
    \/ \E src \in Rings : Assign(1, src)

Spec == Init /\ [][Next]_vars

\* ---- C1 ----
\* C1: size() and operator[](i) of the buffer equal the size and the i-th
\* element of the reference deque driven by the same calls
MatchesDeque ==
    rb[1].m_size_max > 0 =>
        /\ size(rb[1]) = Len(ref[1])
        /\ \A i \in 0 .. (size(rb[1]) - 1) :
               i < Len(ref[1]) => at(rb[1], i) = ref[1][i + 1]

\* ---- C2 ----
\* C2: in every state of an allocated buffer 0 <= end < capacity
EndInRange ==
    rb[1].m_size_max > 0 => rb[1].m_end >= 0 /\ rb[1].m_end < rb[1].m_size_max

\* ---- C3 ----
\* C3: in every state of an allocated buffer 0 <= front < capacity, and
\* front_data_index() is in [0, capacity)
FrontInRange ==
    rb[1].m_size_max > 0 =>
        /\ rb[1].m_front >= 0 /\ rb[1].m_front < rb[1].m_size_max
        /\ InBlock(rb[1], front_data_index(rb[1]))

\* ---- C4 ----
\* C4: in every reachable state, after any calls made within their
\* preconditions, 0 <= size() <= capacity()
SizeWithinCapacity ==
    \A r \in Bufs : size(rb[r]) >= 0 /\ size(rb[r]) <= capacity(rb[r])

\* a full buffer whose content wraps around the end of the block
FullWrapped ==
    /\ rb[1].m_size_max >= 2
    /\ rb[1].m_size = rb[1].m_size_max
    /\ rb[1].m_front > 0

\* ---- C5 ----
\* C5: in every state of an allocated buffer end == (front + size) mod capacity
EndIsFrontPlusSize ==
    rb[1].m_size_max > 0 =>
        rb[1].m_end = (rb[1].m_front + rb[1].m_size) % rb[1].m_size_max

\* ---- C6 ----
\* C6: no call touches the block outside [0, capacity): push_back(v) writes
\* data[end] with end < capacity, front() and pop_front() read data[front]
\* with front < capacity
NoAccessOutsideBlock ==
    /\ ~oob[1]
    /\ (rb[1].m_size_max > 0 /\ rb[1].m_size < rb[1].m_size_max)
           => InBlock(rb[1], rb[1].m_end)
    /\ rb[1].m_size > 0 => InBlock(rb[1], rb[1].m_front)

\* ---- C7 ----
\* C7: fresh buffer of capacity C, one bulk push of C elements,
\* pop_front(array, C) returning C, then push_back(v): size() == 1 and
\* front(), back() and operator[](0) all give v
FillDrainPush ==
    /\ phase = "drained" => ret[1] = <<rb[1].m_size_max>>
    /\ phase = "pushed" =>
           /\ size(rb[1]) = 1
           /\ front(rb[1]) = {exp.seq[Len(exp.seq)]}
           /\ back(rb[1]) = {exp.seq[Len(exp.seq)]}
           /\ at(rb[1], 0) = exp.seq[Len(exp.seq)]

\* ---- C8 ----
\* the per-element loops a bulk transfer stands for: array_size calls of
\* push_back(v), n calls of pop_front() whose results fill the array
RECURSIVE push_back_loop(_, _)
push_back_loop(o, array) ==
    IF array = << >> THEN {o}
    ELSE UNION {push_back_loop(Outcome(o1.b, o.oob \/ o1.oob, <<>>, <<>>),
                               Tail(array)) :
                   o1 \in push_back_nolock(o.b, Head(array))}

RECURSIVE pop_front_loop(_, _)
pop_front_loop(o, n) ==
    IF n <= 0 THEN {o}
    ELSE UNION {pop_front_loop(Outcome(o1.b, o.oob \/ o1.oob,
                                       <<o.ret[1] + 1>>, o.out \o o1.ret),
                               n - 1) :
                   o1 \in pop_front_nolock(o.b)}

\* buffer 1 had outcome o1 and buffer 2 outcome o2
Done2(o1, o2) ==
    /\ rb' = <<o1.b, o2.b>>
    /\ ret' = <<o1.ret, o2.ret>>
    /\ out' = <<o1.out, o2.out>>
    /\ oob' = <<o1.oob, o2.oob>>
    /\ UNCHANGED <<ref, phase, exp, ptr, m_mutex, pc>>

\* the same call made on both buffers
Both(op1, op2) ==
    /\ op1 # {}
    /\ \E o1 \in op1 : \E o2 \in op2 : Done2(o1, o2)

LResizeAllocation ==
    \E n \in Caps :
        Both(resize_allocation(rb[1], n), resize_allocation(rb[2], n))

LPushBackArray ==
    \E n \in 1 .. MaxCap : \E array \in Arrays(n) :
        /\ memory_check_size_nolock(rb[1], n)
        /\ memory_check_size_nolock(rb[2], n)
        /\ Both(push_back_nolock_array(rb[1], array, n),
                push_back_loop(Outcome(rb[2], FALSE, <<>>, <<>>), array))

LPushBackValue ==
    \E n \in 1 .. MaxCap : \E v \in Val :
        /\ memory_check_size_nolock(rb[1], n)
        /\ memory_check_size_nolock(rb[2], n)
        /\ Both(push_back_nolock_value(rb[1], v, n),
                push_back_loop(Outcome(rb[2], FALSE, <<>>, <<>>), Fill(v, n)))

LPopFrontArray ==
    \E n \in 1 .. MaxCap :
        /\ n <= size(rb[1])
        /\ n <= size(rb[2])
        /\ Both(pop_front_nolock_array(rb[1], n),
                pop_front_loop(Outcome(rb[2], FALSE, <<0>>, <<>>), n))

LPushBack ==
    \E v \in Val :
        /\ memory_check_size_nolock(rb[1], 1)
        /\ memory_check_size_nolock(rb[2], 1)
        /\ Both(push_back_nolock(rb[1], v), push_back_nolock(rb[2], v))

LPopFront ==
    /\ rb[1].m_size >= 1
    /\ rb[2].m_size >= 1
    /\ Both(pop_front_nolock(rb[1]), pop_front_nolock(rb[2]))

LPopFrontN ==
    \E n \in Counts : Both(pop_front_nolock_n(rb[1], n), pop_front_nolock_n(rb[2], n))

LPopBack ==
    /\ rb[1].m_size >= 1
    /\ rb[2].m_size >= 1
    /\ Both(pop_back_nolock(rb[1]), pop_back_nolock(rb[2]))

LPopBackN ==
    \E n \in Counts : Both(pop_back_nolock_n(rb[1], n), pop_back_nolock_n(rb[2], n))

LClear == Both(clear(rb[1]), clear(rb[2]))

\* buffer 1 is driven with bulk transfers, buffer 2 with the loops, and both
\* with the same other calls
NextLoop ==
    \/ LResizeAllocation
    \/ LPushBackArray
    \/ LPushBackValue
    \/ LPopFrontArray
    \/ LPushBack
    \/ LPopFront
    \/ LPopFrontN
    \/ LPopBack
    \/ LPopBackN
    \/ LClear

SpecLoop == Init /\ [][NextLoop]_vars

\* C8: a bulk transfer and its per-element loop give the same returned
\* elements, the same size() and operator[](i), now and after every
\* following sequence of valid calls
BulkEqualsLoop ==
    /\ size(rb[1]) = size(rb[2])
    /\ Content(rb[1]) = Content(rb[2])
    /\ ret[1] = ret[2]
    /\ out[1] = out[2]

\* ---- C9 ----
\* C9: whenever size() > 0, front() == operator[](0) ==
\* data()[front_data_index()] and back() == operator[](size()-1) ==
\* data()[back_data_index()], with back_data_index() ==
\* (end == 0 ? capacity-1 : end-1) and both indices in [0, capacity)
FrontBackAgree ==
    size(rb[1]) > 0 =>
        /\ InBlock(rb[1], front_data_index(rb[1]))
        /\ InBlock(rb[1], back_data_index(rb[1]))
        /\ front(rb[1]) = {at(rb[1], 0)}
        /\ rb[1].m_data[front_data_index(rb[1])] = at(rb[1], 0)
        /\ back(rb[1]) = {at(rb[1], size(rb[1]) - 1)}
        /\ rb[1].m_data[back_data_index(rb[1])] = at(rb[1], size(rb[1]) - 1)
        /\ back_data_index(rb[1]) =
               (IF rb[1].m_end = 0 THEN rb[1].m_size_max - 1 ELSE rb[1].m_end - 1)

\* ---- C10 ----
\* C10: a push of n elements onto s elements followed by
\* pop_front(out, s+n) returns s+n, delivers the s old elements then the n
\* pushed ones in order, and leaves the buffer empty
RoundTrip ==
    exp.st = "popped" =>
        /\ ret[1] = <<Len(exp.seq)>>
        /\ out[1] = exp.seq
        /\ size(rb[1]) = 0

\* ---- two live buffers ----
RingCap == 3         \* largest capacity in the ring-to-ring specification

\* the buffers resize_allocation(c) leaves, c in caps
Fresh(caps) == UNION {{o.b : o \in resize_allocation(NewBuf, c)} : c \in caps}

\* this->pop_front_nolock(rb): rb.push_back_nolock(*this), then
\* this->clear_nolock(); returns this's size before the call
pop_front_nolock_rb(b, dst) ==
    {[b |-> clear_nolock(b), rb |-> o.b, oob |-> o.oob, ret |-> <<size(b)>>] :
        o \in push_back_nolock_rb(dst, b)}

\* a call left buffer 1 as b1 and buffer 2 as b2, returned r1 from buffer 1,
\* and touched a slot outside a block or not
Paired(b1, b2, r1, o) ==
    /\ rb' = [rb EXCEPT ![1] = b1, ![2] = b2]
    /\ ret' = [NoRet EXCEPT ![1] = r1]
    /\ out' = NoRet
    /\ oob' = [NoOOB EXCEPT ![1] = o]
    /\ UNCHANGED <<ref, phase, exp, ptr, m_mutex, pc>>

\* a call on buffer r alone with outcome o
Single(r, o) ==
    /\ rb' = [rb EXCEPT ![r] = o.b]
    /\ ret' = NoRet
    /\ out' = NoRet
    /\ oob' = [NoOOB EXCEPT ![r] = o.oob]
    /\ UNCHANGED <<ref, phase, exp, ptr, m_mutex, pc>>

PPushBack(r) ==
    \E v \in Val :
        /\ memory_check_size_nolock(rb[r], 1)
        /\ \E o \in push_back_nolock(rb[r], v) : Single(r, o)

PPushBackValue(r) ==
    \E v \in Val : \E n \in 1 .. (rb[r].m_size_max - rb[r].m_size) :
        /\ memory_check_size_nolock(rb[r], n)
        /\ \E o \in push_back_nolock_value(rb[r], v, n) : Single(r, o)

PPopFront(r) ==
    /\ rb[r].m_size >= 1
    /\ \E o \in pop_front_nolock(rb[r]) : Single(r, o)

PPopFrontArray(r) ==
    \E n \in 1 .. rb[r].m_size :
        \E o \in pop_front_nolock_array(rb[r], n) : Single(r, o)

\* rb[1].push_back(rb[2])
PPushBackRb ==
    /\ size(rb[2]) > 0
    /\ memory_check_size_nolock(rb[1], size(rb[2]))
    /\ \E o \in push_back_nolock_rb(rb[1], rb[2]) :
           Paired(o.b, rb[2], <<>>, o.oob)

\* rb[1].pop_front(rb[2])
PPopFrontRb ==
    /\ size(rb[1]) > 0 => memory_check_size_nolock(rb[2], size(rb[1]))
    /\ \E o \in pop_front_nolock_rb(rb[1], rb[2]) :
           Paired(o.b, o.rb, o.ret, o.oob)

NextPair ==
    \/ \E r \in Bufs : PPushBack(r)
    \/ \E r \in Bufs : PPushBackValue(r)
    \/ \E r \in Bufs : PPopFront(r)
    \/ \E r \in Bufs : PPopFrontArray(r)
    \/ PPushBackRb
    \/ PPopFrontRb

\* both buffers allocated, with capacities up to RingCap
InitRing ==
    /\ rb \in [Bufs -> Fresh(1 .. RingCap)]
    /\ ref = [r \in Bufs |-> <<>>]
    /\ ret = NoRet
    /\ out = NoRet
    /\ oob = NoOOB
    /\ phase = "none"
    /\ exp = NoExp
    /\ ptr = [r \in Bufs |-> 0]
    /\ m_mutex = [r \in Bufs |-> 0]
    /\ pc = [t \in Threads |-> Idle]

SpecRing == InitRing /\ [][NextPair]_vars

\* ---- C11 ----
\* the destination shows its old content followed by the source's
RbAppended == Content(rb'[1]) = Content(rb[1]) \o Content(rb[2])

\* the destination shows what the loop push_back(other[i]) leaves
RbAsLoop ==
    \A o \in push_back_loop(Outcome(rb[1], FALSE, <<>>, <<>>), Content(rb[2])) :
        /\ size(o.b) = size(rb'[1])
        /\ Content(o.b) = Content(rb'[1])

\* C11: push_back(other) appends other's content in order after the
\* destination's, exactly as the loop push_back(other[i]) would, for every
\* shape of source and destination, and leaves the source unchanged
PushBackRbAsLoop ==
    [][PPushBackRb => (RbAppended /\ RbAsLoop /\ rb'[2] = rb[2])]_vars

\* ---- allocation ----
\* the addresses operator new[] can return
Addrs == {1, 2}

\* new value_type[size_max] while the blocks at the addresses live are
\* allocated: any address that is not in use
new_block(live) == Addrs \ live

\* the m_data pointer after resize_allocation(size_max): the old block is
\* destroyed before the new one is allocated
resize_allocation_data(b, p, size_max) ==
    IF size_max = b.m_size_max THEN {p} ELSE new_block({})

\* the m_data pointer after reserve(size_max): the new block is allocated
\* while the old one is still there
reserve_data(b, p, size_max) ==
    IF size_max <= b.m_size_max THEN {p} ELSE new_block({p})

\* the calls that can allocate
AllocOps == {"resize_allocation", "reserve"}

\* the call c on buffer 1 had outcome o and left the m_data pointer at p;
\* phase names an allocating call and is "keep" after any other, and exp
\* keeps what the buffer was before the call: the whole object for reserve,
\* capacity() and size() for resize_allocation, capacity() for the other
\* calls, and data() for all
Alloc(c, o, p) ==
    /\ rb' = [rb EXCEPT ![1] = o.b]
    /\ ret' = NoRet
    /\ out' = NoRet
    /\ oob' = [NoOOB EXCEPT ![1] = o.oob]
    /\ ptr' = [ptr EXCEPT ![1] = p]
    /\ phase' = (IF c.op \in AllocOps THEN c.op ELSE "keep")
    /\ exp' = IF c.op = "reserve"
              THEN [st |-> c.op, n |-> c.n, pre |-> rb[1], ptr |-> ptr[1]]
              ELSE IF c.op = "resize_allocation"
              THEN [st |-> c.op, n |-> c.n, cap |-> capacity(rb[1]),
                    size |-> size(rb[1]), ptr |-> ptr[1]]
              ELSE [st |-> "keep", cap |-> capacity(rb[1]), ptr |-> ptr[1]]
    /\ UNCHANGED <<ref, m_mutex, pc>>

AResizeAllocation(n) ==
    \E o \in resize_allocation(rb[1], n) :
        \E p \in resize_allocation_data(rb[1], ptr[1], n) :
            Alloc(Call("resize_allocation", n, <<>>), o, p)

AReserve(n) ==
    \E o \in reserve(rb[1], n) :
        \E p \in reserve_data(rb[1], ptr[1], n) :
            Alloc(Call("reserve", n, <<>>), o, p)

AClear == \E o \in clear(rb[1]) : Alloc(Call("clear", 0, <<>>), o, ptr[1])

APushBack(v) ==
    /\ memory_check_size_nolock(rb[1], 1)
    /\ \E o \in push_back_nolock(rb[1], v) :
           Alloc(Call("push_back", 1, <<>>), o, ptr[1])

APushBackValue(v, n) ==
    /\ n > 0 => memory_check_size_nolock(rb[1], n)
    /\ \E o \in push_back_nolock_value(rb[1], v, n) :
           Alloc(Call("push_back_value", n, <<>>), o, ptr[1])

APushBackArray(array, n) ==
    /\ n > 0 => memory_check_size_nolock(rb[1], n)
    /\ \E o \in push_back_nolock_array(rb[1], array, n) :
           Alloc(Call("push_back_array", n, <<>>), o, ptr[1])

APushBackRb(src) ==
    /\ size(src) > 0 => memory_check_size_nolock(rb[1], size(src))
    /\ \E o \in push_back_nolock_rb(rb[1], src) :
           Alloc(Call("push_back_rb", size(src), <<>>), o, ptr[1])

AAssign(src) ==
    /\ size(src) > 0 => memory_check_size_nolock(clear_nolock(rb[1]), size(src))
    /\ \E o \in assign(rb[1], src) :
           Alloc(Call("assign", size(src), <<>>), o, ptr[1])

APopFront ==
    /\ rb[1].m_size >= 1
    /\ \E o \in pop_front_nolock(rb[1]) :
           Alloc(Call("pop_front", 1, <<>>), o, ptr[1])

APopFrontN(n) ==
    \E o \in pop_front_nolock_n(rb[1], n) :
        Alloc(Call("pop_front_n", n, <<>>), o, ptr[1])

APopFrontArray(n) ==
    \E o \in pop_front_nolock_array(rb[1], n) :
        Alloc(Call("pop_front_array", n, <<>>), o, ptr[1])

APopBack ==
    /\ rb[1].m_size >= 1
    /\ \E o \in pop_back_nolock(rb[1]) :
           Alloc(Call("pop_back", 1, <<>>), o, ptr[1])

APopBackN(n) ==
    \E o \in pop_back_nolock_n(rb[1], n) :
        Alloc(Call("pop_back_n", n, <<>>), o, ptr[1])

\* the calls that never allocate
NextKeep ==
    \/ AClear
    \/ \E v \in Val : APushBack(v)
    \/ \E v \in Val, n \in Counts : APushBackValue(v, n)
    \/ \E n \in Counts : \E array \in Arrays(n) : APushBackArray(array, n)
    \/ \E src \in ValueRings : APushBackRb(src)
    \/ \E src \in ValueRings : AAssign(src)
    \/ APopFront
    \/ \E n \in Counts : APopFrontN(n)
    \/ \E n \in Counts : APopFrontArray(n)
    \/ APopBack
    \/ \E n \in Counts : APopBackN(n)

\* all calls on one buffer, allocating capacities in Caps
NextAlloc ==
    \/ \E n \in Caps : AResizeAllocation(n)
    \/ \E n \in Caps : AReserve(n)
    \/ NextKeep

SpecAlloc == Init /\ [][NextAlloc]_vars

\* the calls that build every layout of the content, and reserve up to
\* RingCap
NextReserve ==
    \/ \E n \in 1 .. RingCap : AResizeAllocation(n)
    \/ \E n \in 1 .. RingCap : AReserve(n)
    \/ \E v \in Val : APushBack(v)
    \/ \E v \in Val, n \in Counts : APushBackValue(v, n)
    \/ APopFront
    \/ \E n \in Counts : APopFrontArray(n)

SpecReserve == Init /\ [][NextReserve]_vars

\* ---- C12 ----
\* C12: reserve(n) with n > capacity() leaves capacity() == n, size()
\* unchanged and operator[](i) unchanged for every i < size(), from every
\* reachable state
ReservePreserves ==
    (phase = "reserve" /\ exp.n > capacity(exp.pre)) =>
        /\ capacity(rb[1]) = exp.n
        /\ size(rb[1]) = size(exp.pre)
        /\ Content(rb[1]) = Content(exp.pre)

\* ---- C13 ----
\* C13: after reserve(n) with n > capacity(), front == 0 and
\* end == size mod n
ReserveLinearizes ==
    (phase = "reserve" /\ exp.n > capacity(exp.pre)) =>
        /\ rb[1].m_front = 0
        /\ rb[1].m_end = size(exp.pre) % exp.n

\* ---- C14 ----
\* C14: reserve(n) with n <= capacity() changes nothing: capacity(), data(),
\* front, end, size and every stored element stay as they were
ReserveSmallerIsNoOp ==
    (phase = "reserve" /\ exp.n <= capacity(exp.pre)) =>
        /\ rb[1] = exp.pre
        /\ ptr[1] = exp.ptr

\* reserve(n) with n <= capacity() has run on a non-empty buffer whose
\* content does not start at slot 0
ReservedSmaller ==
    /\ phase = "reserve"
    /\ exp.n <= capacity(exp.pre)
    /\ size(exp.pre) > 0
    /\ exp.pre.m_front > 0

\* ---- C15 ----
\* C15: after resize_allocation(n), n > 0, from any state: capacity() == n,
\* size() == 0 and front == end == 0, also when n is the current capacity
ResizeAllocationResets ==
    phase = "resize_allocation" =>
        /\ capacity(rb[1]) = exp.n
        /\ size(rb[1]) = 0
        /\ rb[1].m_front = 0
        /\ rb[1].m_end = 0

\* resize_allocation(n) has run on a non-empty buffer of capacity n
ResizedSameCapacity ==
    /\ phase = "resize_allocation"
    /\ exp.n = exp.cap
    /\ exp.size > 0

GuardedOps == {"assign", "clear", "push_back", "push_back_rb",
               "pop_front_rb", "front", "back"}

\* the member functions that return a field without taking the mutex
AccessOps == {"size", "capacity", "empty", "data", "at"}

\* the value the threads push: the one resize_allocation fills the block
\* with, the calls of the threads differing by the mutex they take
Pushed == {0}

\* the guarded member functions with a ringbuffer argument
RingArgOps == {"assign", "push_back_rb", "pop_front_rb"}

MutGuarded(op) == op \in GuardedOps \cup {"size", "at"}

Guarded(op) == op \in GuardedOps

\* the buffers whose fields the call p reads or writes
Touches(p) == IF p.op \in RingArgOps THEN {p.self, p.arg} ELSE {p.self}

\* thread t is inside a guarded member function: it has taken the mutex of
\* the object it called and has not returned
Inside(t) == pc[t].at = "locked"

\* what the asserts of the call p require when its body runs
BodyPre(p) ==
    CASE p.op = "push_back" -> memory_check_size_nolock(rb[p.self], 1)
      [] p.op = "assign" ->
            size(rb[p.arg]) > 0 =>
                memory_check_size_nolock(clear_nolock(rb[p.self]),
                                         size(rb[p.arg]))
      [] p.op = "push_back_rb" ->
            size(rb[p.arg]) > 0 =>
                memory_check_size_nolock(rb[p.self], size(rb[p.arg]))
      [] p.op = "pop_front_rb" ->
            size(rb[p.self]) > 0 =>
                memory_check_size_nolock(rb[p.arg], size(rb[p.self]))
      [] OTHER -> TRUE

\* the outcomes of the body of the call p: both buffers afterwards and the
\* returned value
Body(p) ==
    CASE p.op = "clear" ->
            {[rb |-> [rb EXCEPT ![p.self] = o.b], ret |-> <<>>] :
                o \in clear(rb[p.self])}
      [] p.op = "assign" ->
            {[rb |-> [rb EXCEPT ![p.self] = o.b], ret |-> <<>>] :
                o \in assign(rb[p.self], rb[p.arg])}
      [] p.op = "push_back" ->
            UNION {{[rb |-> [rb EXCEPT ![p.self] = o.b], ret |-> <<>>] :
                       o \in push_back_nolock(rb[p.self], v)} : v \in Pushed}
      [] p.op = "push_back_rb" ->
            {[rb |-> [rb EXCEPT ![p.self] = o.b], ret |-> <<>>] :
                o \in push_back_nolock_rb(rb[p.self], rb[p.arg])}
      [] p.op = "pop_front_rb" ->
            {[rb |-> [rb EXCEPT ![p.self] = o.b, ![p.arg] = o.rb],
              ret |-> o.ret] :
                o \in pop_front_nolock_rb(rb[p.self], rb[p.arg])}
      [] p.op = "front" ->
            {[rb |-> rb, ret |-> <<v>>] : v \in front(rb[p.self])}
      [] p.op = "back" ->
            {[rb |-> rb, ret |-> <<v>>] : v \in back(rb[p.self])}

\* what the member function op of buffer x returns without any lock
Access(op, x) ==
    CASE op = "size" -> size(rb[x])
      [] op = "capacity" -> capacity(rb[x])
      [] op = "empty" -> empty(rb[x])
      [] op = "data" -> ptr[x]
      [] op = "at" -> IF size(rb[x]) > 0 THEN at(rb[x], 0) ELSE 0

\* thread t calls a guarded member function of buffer x (for the functions
\* with a ringbuffer argument, the other buffer is the argument): the guard
\* is constructed next; front() and back() assert size() > 0 before it
TCall(t) ==
    \E op \in GuardedOps, x \in Bufs :
        /\ pc[t].at \in {"idle", "returned"}
        /\ op \in {"front", "back"} => size(rb[x]) > 0
        /\ pc' = [pc EXCEPT ![t] =
                     [at |-> "waiting", op |-> op, self |-> x,
                      arg |-> (IF op \in RingArgOps
                               THEN CHOOSE y \in Bufs : y # x ELSE 0),
                      held |-> pc[t].held]]
        /\ UNCHANGED <<rb, ref, ret, out, oob, phase, exp, ptr, m_mutex>>

\* thread t calls a member function that takes no guard: it returns at
\* once, whoever holds the mutex
TAccess(t) ==
    \E op \in AccessOps, x \in Bufs :
        /\ pc[t].at \in {"idle", "returned"}
        /\ pc' = [pc EXCEPT ![t] =
                     [at |-> (IF Guarded(op) THEN "waiting" ELSE "returned"),
                      op |-> op, self |-> x, arg |-> 0, held |-> pc[t].held]]
        /\ ret' = (IF Guarded(op) THEN ret
                   ELSE [NoRet EXCEPT ![x] = <<Access(op, x)>>])
        /\ UNCHANGED <<rb, ref, out, oob, phase, exp, ptr, m_mutex>>

\* thread t calls lock() on buffer x
TLock(t) ==
    \E x \in Bufs :
        /\ pc[t].at \in {"idle", "returned"}
        /\ pc[t].held = 0
        /\ pc' = [pc EXCEPT ![t] =
                     [at |-> "waiting", op |-> "lock", self |-> x, arg |-> 0,
                      held |-> 0]]
        /\ UNCHANGED <<rb, ref, ret, out, oob, phase, exp, ptr, m_mutex>>

\* m_mutex.lock() succeeds: the mutex was free. lock() returns holding it,
\* a guarded member function goes on to its body
TAcquire(t) ==
    /\ pc[t].at = "waiting"
    /\ m_mutex[pc[t].self] = 0
    /\ m_mutex' = [m_mutex EXCEPT ![pc[t].self] = t]
    /\ pc' = [pc EXCEPT ![t] =
                 IF pc[t].op = "lock"
                 THEN [Idle EXCEPT !.held = pc[t].self]
                 ELSE [pc[t] EXCEPT !.at = "locked"]]
    /\ UNCHANGED <<rb, ref, ret, out, oob, phase, exp, ptr>>

\* m_mutex.lock() by the thread that already owns the std::mutex is
\* undefined: the thread blocks for ever, or the call throws
\* std::system_error and is abandoned
TRelock(t) ==
    /\ pc[t].at = "waiting"
    /\ m_mutex[pc[t].self] = t
    /\ \E how \in {"deadlock", "error"} :
           pc' = [pc EXCEPT ![t] = [pc[t] EXCEPT !.at = how]]
    /\ UNCHANGED <<rb, ref, ret, out, oob, phase, exp, ptr, m_mutex>>

\* the call that threw is over
TThrown(t) ==
    /\ pc[t].at = "error"
    /\ pc' = [pc EXCEPT ![t] = [Idle EXCEPT !.held = pc[t].held]]
    /\ UNCHANGED <<rb, ref, ret, out, oob, phase, exp, ptr, m_mutex>>

\* the buffers the call of thread t touches while another thread is inside
\* a call that touches them too
Raced(t) ==
    {x \in Touches(pc[t]) :
        \E u \in Threads \ {t} : Inside(u) /\ x \in Touches(pc[u])}

MutTFinish(t) ==
    /\ Inside(t)
    /\ BodyPre(pc[t])
    /\ pc[t].op \in RingArgOps => m_mutex[pc[t].arg] = 0
    /\ \E o \in Body(pc[t]) : \E lost \in SUBSET Raced(t) :
           /\ rb' = [r \in Bufs |-> IF r \in lost THEN rb[r] ELSE o.rb[r]]
           /\ ret' = [NoRet EXCEPT ![pc[t].self] = o.ret]
    /\ m_mutex' = [m_mutex EXCEPT ![pc[t].self] = 0]
    /\ pc' = [pc EXCEPT ![t] = [Idle EXCEPT !.held = pc[t].held]]
    /\ UNCHANGED <<ref, out, oob, phase, exp, ptr>>

\* the body of the guarded member function runs and the guard is released;
\* on a buffer another thread is working on at the same time the writes
\* race, and the buffer keeps either what this call or what it had before
TFinish(t) ==
    /\ Inside(t)
    /\ BodyPre(pc[t])
    /\ \E o \in Body(pc[t]) : \E lost \in SUBSET Raced(t) :
           /\ rb' = [r \in Bufs |-> IF r \in lost THEN rb[r] ELSE o.rb[r]]
           /\ ret' = [NoRet EXCEPT ![pc[t].self] = o.ret]
    /\ m_mutex' = [m_mutex EXCEPT ![pc[t].self] = 0]
    /\ pc' = [pc EXCEPT ![t] = [Idle EXCEPT !.held = pc[t].held]]
    /\ UNCHANGED <<ref, out, oob, phase, exp, ptr>>

\* an assert of the body fails: the program is aborted with the mutex held
TAbort(t) ==
    /\ Inside(t)
    /\ ~BodyPre(pc[t])
    /\ pc' = [pc EXCEPT ![t] = [pc[t] EXCEPT !.at = "aborted"]]
    /\ UNCHANGED <<rb, ref, ret, out, oob, phase, exp, ptr, m_mutex>>

\* thread t calls unlock() on the buffer it locked
TUnlock(t) ==
    /\ pc[t].at \in {"idle", "returned"}
    /\ pc[t].held # 0
    /\ m_mutex' = [m_mutex EXCEPT ![pc[t].held] = 0]
    /\ pc' = [pc EXCEPT ![t] = Idle]
    /\ UNCHANGED <<rb, ref, ret, out, oob, phase, exp, ptr>>

NextThreads ==
    \E t \in Threads :
        \/ TCall(t)
        \/ TAccess(t)
        \/ TLock(t)
        \/ TAcquire(t)
        \/ TRelock(t)
        \/ TThrown(t)
        \/ TFinish(t)
        \/ TAbort(t)
        \/ TUnlock(t)

\* both buffers allocated, with one slot for each thread
InitThreads ==
    /\ rb = [r \in Bufs |-> RingOf(Cardinality(Threads), 0, << >>)]
    /\ ref = [r \in Bufs |-> <<>>]
    /\ ret = NoRet
    /\ out = NoRet
    /\ oob = NoOOB
    /\ phase = "none"
    /\ exp = NoExp
    /\ ptr = [r \in Bufs |-> r]
    /\ m_mutex = [r \in Bufs |-> 0]
    /\ pc = [t \in Threads |-> Idle]

SpecThreads == InitThreads /\ [][NextThreads]_vars

\* ---- C17 ----
\* C17: no two threads are at the same time inside member functions that
\* mutate or bulk-read the same buffer, the buffer passed as argument to
\* push_back(ring), pop_front(ring) and operator= included
MutuallyExclusive ==
    \A t \in Threads : \A u \in Threads \ {t} :
        (Inside(t) /\ Inside(u)) => Touches(pc[t]) \cap Touches(pc[u]) = {}

\* ---- C18 ----
\* C18: front() and back() never take the buffer's mutex, so a thread
\* between lock() and unlock() calls them without blocking
FrontBackTakeNoLock ==
    \A t \in Threads :
        pc[t].op \in {"front", "back"} =>
            pc[t].at \notin {"waiting", "locked", "deadlock", "error"}

\* ---- C19 ----
\* C19: operator[], size(), capacity(), empty() and data() never take the
\* mutex: they return without waiting, also while another thread holds
\* lock() or is inside a guarded member function of the same buffer
AccessTakesNoLock ==
    \A t \in Threads :
        pc[t].op \in AccessOps =>
            /\ pc[t].at = "returned"
            /\ m_mutex[pc[t].self] # t \/ pc[t].held = pc[t].self

\* an accessor has returned while the other thread held the buffer's mutex
AccessedWhileLocked ==
    \E t \in Threads : \E u \in Threads \ {t} :
        /\ pc[t].op \in AccessOps
        /\ pc[t].at = "returned"
        /\ m_mutex[pc[t].self] = u

\* ---- C20 ----
\* what rb[1].pop_front(rb[2]) has to leave: the size of rb[1] returned,
\* rb[1] empty, rb[2] showing its content followed by that of rb[1], which
\* is what rb[2].push_back(rb[1]) followed by rb[1].clear() leaves
Drained ==
    /\ ret'[1] = <<size(rb[1])>>
    /\ size(rb'[1]) = 0
    /\ Content(rb'[2]) = Content(rb[2]) \o Content(rb[1])
    /\ \E o \in push_back_nolock_rb(rb[2], rb[1]) :
           /\ rb'[2] = o.b
           /\ rb'[1] \in {c.b : c \in clear(rb[1])}

\* C20: a.pop_front(b) with a.size() <= b.capacity() - b.size() returns a's
\* size before the call, leaves a empty, and leaves b holding its previous
\* content followed by a's previous content in order, as b.push_back(a)
\* followed by a.clear() does
PopFrontRbDrains == [][PPopFrontRb => Drained]_vars

\* ---- deep copy ----
\* the other one of the two buffers
Other(x) == CHOOSE y \in Bufs : y # x

\* where a store outside its own block can land: nowhere in the neighbour's
\* block, or on one of its slots
StrayStore(nb, v) ==
    {nb} \cup {[nb EXCEPT !.m_data = Store(@, i, v)] :
                  i \in 0 .. (nb.m_size_max - 1)}

\* the call op on buffer x had outcome o and left the other buffer as nb
Copied(x, op, o, nb) ==
    /\ rb' = [rb EXCEPT ![x] = o.b, ![Other(x)] = nb]
    /\ ret' = [NoRet EXCEPT ![x] = o.ret]
    /\ out' = NoRet
    /\ oob' = [NoOOB EXCEPT ![x] = o.oob]
    /\ phase' = op
    /\ exp' = [st |-> op, self |-> x, other |-> rb[Other(x)]]
    /\ UNCHANGED <<ref, ptr, m_mutex, pc>>

\* rb[x] = rb[Other(x)]
CAssign(x) ==
    /\ size(rb[Other(x)]) > 0 =>
           memory_check_size_nolock(clear_nolock(rb[x]), size(rb[Other(x)]))
    /\ \E o \in assign(rb[x], rb[Other(x)]) :
           Copied(x, "assign", o, rb[Other(x)])

\* rb[x].push_back(v): m_data[m_end] = v, in the block or beyond it
CPushBack(x) ==
    \E v \in Val :
        /\ memory_check_size_nolock(rb[x], 1)
        /\ \E o \in push_back_nolock(rb[x], v) :
               \E nb \in (IF o.oob THEN StrayStore(rb[Other(x)], v)
                          ELSE {rb[Other(x)]}) :
                   Copied(x, "mutate", o, nb)

CPushBackValue(x) ==
    \E v \in Val : \E n \in 1 .. (rb[x].m_size_max - rb[x].m_size) :
        /\ memory_check_size_nolock(rb[x], n)
        /\ \E o \in push_back_nolock_value(rb[x], v, n) :
               Copied(x, "mutate", o, rb[Other(x)])

CPopFront(x) ==
    /\ rb[x].m_size >= 1
    /\ \E o \in pop_front_nolock(rb[x]) : Copied(x, "mutate", o, rb[Other(x)])

CPopFrontArray(x) ==
    \E n \in 1 .. rb[x].m_size :
        \E o \in pop_front_nolock_array(rb[x], n) :
            Copied(x, "mutate", o, rb[Other(x)])

CClear(x) ==
    \E o \in clear(rb[x]) : Copied(x, "mutate", o, rb[Other(x)])

NextCopy ==
    \E x \in Bufs :
        \/ CAssign(x)
        \/ CPushBack(x)
        \/ CPushBackValue(x)
        \/ CPopFront(x)
        \/ CPopFrontArray(x)
        \/ CClear(x)

\* both buffers allocated, each with its own block
InitCopy ==
    /\ rb \in [Bufs -> Fresh(Caps)]
    /\ ref = [r \in Bufs |-> <<>>]
    /\ ret = NoRet
    /\ out = NoRet
    /\ oob = NoOOB
    /\ phase = "none"
    /\ exp = NoExp
    /\ ptr = [r \in Bufs |-> r]
    /\ m_mutex = [r \in Bufs |-> 0]
    /\ pc = [t \in Threads |-> Idle]

SpecCopy == InitCopy /\ [][NextCopy]_vars

\* ---- C21 ----
\* C21: after a = b, a has the size and the logical content of b, b is
\* unchanged and a.data() # b.data(); a later mutation of one of the two
\* buffers never changes the content of the other
DeepCopyIsolation ==
    /\ phase = "assign" =>
           /\ size(rb[exp.self]) = size(exp.other)
           /\ Content(rb[exp.self]) = Content(exp.other)
           /\ rb[Other(exp.self)] = exp.other
           /\ ptr[exp.self] # ptr[Other(exp.self)]
    /\ phase = "mutate" =>
           Content(rb[Other(exp.self)]) = Content(exp.other)

\* ---- calls with asserts enabled ----
\* the call c ran to its end on buffer 1 with outcome o and left the m_data
\* pointer at p; phase names the member function, exp keeps its arguments
\* and the buffer before the call, and for a pop_back() made right after a
\* push_back(v) what was kept for that push_back
Ran(c, o, p) ==
    /\ rb' = [rb EXCEPT ![1] = o.b]
    /\ ret' = [NoRet EXCEPT ![1] = o.ret]
    /\ out' = [NoRet EXCEPT ![1] = o.out]
    /\ oob' = [NoOOB EXCEPT ![1] = o.oob]
    /\ ptr' = [ptr EXCEPT ![1] = p]
    /\ phase' = c.op
    /\ exp' = [st |-> c.op, n |-> c.n, vals |-> c.vals, pre |-> rb[1],
               prev |-> IF c.op = "pop_back" /\ phase = "push_back"
                        THEN <<exp>> ELSE <<>>]
    /\ UNCHANGED <<ref, m_mutex, pc>>

\* the call c stopped the program (how: "abort" from a failed assert,
\* "throw" from operator new[]) with buffer 1 left as b
Stopped(how, c, b, p) ==
    /\ rb' = [rb EXCEPT ![1] = b]
    /\ ret' = NoRet
    /\ out' = NoRet
    /\ oob' = NoOOB
    /\ ptr' = [ptr EXCEPT ![1] = p]
    /\ phase' = how
    /\ exp' = [st |-> c.op, n |-> c.n, vals |-> <<>>, pre |-> rb[1],
               prev |-> <<>>]
    /\ UNCHANGED <<ref, m_mutex, pc>>

\* the program has not been stopped
Running == phase \notin {"abort", "throw"}

\* resize_allocation(n): no assert on n. new value_type[0] is a block of
\* no slots; new value_type[n] with n < 0 throws after the old block was
\* destroyed
KResizeAllocation(n) ==
    /\ Running
    /\ LET c == Call("resize_allocation", n, <<>>) IN
       IF n < 0 /\ n # rb[1].m_size_max
       THEN Stopped("throw", c, [rb[1] EXCEPT !.m_data = << >>], 0)
       ELSE \E o \in resize_allocation(rb[1], n) :
                \E p \in resize_allocation_data(rb[1], ptr[1], n) : Ran(c, o, p)

KClear ==
    /\ Running
    /\ \E o \in clear(rb[1]) : Ran(Call("clear", 0, <<>>), o, ptr[1])

KPushBack(v) ==
    /\ Running
    /\ LET c == Call("push_back", 1, <<v>>) IN
       IF memory_check_size_nolock(rb[1], 1)
       THEN \E o \in push_back_nolock(rb[1], v) : Ran(c, o, ptr[1])
       ELSE Stopped("abort", c, rb[1], ptr[1])

KPushBackValue(v, n) ==
    /\ Running
    /\ LET c == Call("push_back_value", n, Fill(v, n)) IN
       IF n > 0 => memory_check_size_nolock(rb[1], n)
       THEN \E o \in push_back_nolock_value(rb[1], v, n) : Ran(c, o, ptr[1])
       ELSE Stopped("abort", c, rb[1], ptr[1])

KPushBackArray(array, n) ==
    /\ Running
    /\ LET c == Call("push_back_array", n, array) IN
       IF n > 0 => memory_check_size_nolock(rb[1], n)
       THEN \E o \in push_back_nolock_array(rb[1], array, n) : Ran(c, o, ptr[1])
       ELSE Stopped("abort", c, rb[1], ptr[1])

KPushBackRb(src) ==
    /\ Running
    /\ LET c == Call("push_back_rb", size(src), Content(src)) IN
       IF size(src) > 0 => memory_check_size_nolock(rb[1], size(src))
       THEN \E o \in push_back_nolock_rb(rb[1], src) : Ran(c, o, ptr[1])
       ELSE Stopped("abort", c, rb[1], ptr[1])

\* operator=: clear_nolock() has run when the assert of push_back_nolock
\* fails
KAssign(src) ==
    /\ Running
    /\ LET c == Call("assign", size(src), Content(src)) IN
       IF size(src) > 0 =>
              memory_check_size_nolock(clear_nolock(rb[1]), size(src))
       THEN \E o \in assign(rb[1], src) : Ran(c, o, ptr[1])
       ELSE Stopped("abort", c, clear_nolock(rb[1]), ptr[1])

MutKPopFront ==
    /\ Running
    /\ \E o \in pop_front_nolock(rb[1]) :
           Ran(Call("pop_front", 1, <<>>), o, ptr[1])

KPopFront ==
    /\ Running
    /\ LET c == Call("pop_front", 1, <<>>) IN
       IF rb[1].m_size >= 1
       THEN \E o \in pop_front_nolock(rb[1]) : Ran(c, o, ptr[1])
       ELSE Stopped("abort", c, rb[1], ptr[1])

KPopFrontN(n) ==
    /\ Running
    /\ \E o \in pop_front_nolock_n(rb[1], n) :
           Ran(Call("pop_front_n", n, <<>>), o, ptr[1])

KPopFrontArray(n) ==
    /\ Running
    /\ \E o \in pop_front_nolock_array(rb[1], n) :
           Ran(Call("pop_front_array", n, <<>>), o, ptr[1])

KPopBack ==
    /\ Running
    /\ LET c == Call("pop_back", 1, <<>>) IN
       IF rb[1].m_size >= 1
       THEN \E o \in pop_back_nolock(rb[1]) : Ran(c, o, ptr[1])
       ELSE Stopped("abort", c, rb[1], ptr[1])

KPopBackN(n) ==
    /\ Running
    /\ \E o \in pop_back_nolock_n(rb[1], n) :
           Ran(Call("pop_back_n", n, <<>>), o, ptr[1])

\* front(): assert(m_size > 0), then the read
KFront ==
    /\ Running
    /\ LET c == Call("front", 0, <<>>) IN
       IF rb[1].m_size > 0
       THEN \E v \in front(rb[1]) :
                Ran(c, Outcome(rb[1], ~InBlock(rb[1], rb[1].m_front), <<v>>, <<>>),
                    ptr[1])
       ELSE Stopped("abort", c, rb[1], ptr[1])

KBack ==
    /\ Running
    /\ LET c == Call("back", 0, <<>>) IN
       IF rb[1].m_size > 0
       THEN \E v \in back(rb[1]) :
                Ran(c, Outcome(rb[1], ~InBlock(rb[1], back_data_index(rb[1])),
                               <<v>>, <<>>), ptr[1])
       ELSE Stopped("abort", c, rb[1], ptr[1])

\* the calls that read or remove elements, on every layout the single
\* pushes and the fills build, while the program runs
NextPop ==
    \/ \E n \in (0 - 1) .. MaxCap : KResizeAllocation(n)
    \/ KClear
    \/ \E v \in Val : KPushBack(v)
    \/ \E v \in Val, n \in Counts : KPushBackValue(v, n)
    \/ KPopFront
    \/ \E n \in Counts : KPopFrontN(n)
    \/ \E n \in Counts : KPopFrontArray(n)
    \/ KPopBack
    \/ \E n \in Counts : KPopBackN(n)
    \/ KFront
    \/ KBack

SpecPop == Init /\ [][NextPop]_vars

\* the arrays that hold copies of one value
ValueArrays(n) == {Fill(v, n) : v \in Val}

\* the calls that add elements and the calls that remove a number of
\* elements, with any count, while the program runs
NextPush ==
    \/ \E v \in Val : KPushBack(v)
    \/ \E v \in Val, n \in Counts : KPushBackValue(v, n)
    \/ \E n \in Counts : \E array \in ValueArrays(n) :
           KPushBackArray(array, n)
    \/ \E src \in ValueRings : KPushBackRb(src)
    \/ \E src \in ValueRings : KAssign(src)
    \/ KPopFront
    \/ \E n \in Counts : KPopFrontN(n)
    \/ \E n \in Counts : KPopFrontArray(n)
    \/ \E n \in Counts : KPopBackN(n)

\* buffer 1 is not allocated, or allocated with any capacity, size and
\* front
InitPush ==
    /\ rb \in {[r \in Bufs |-> IF r = 1 THEN b ELSE NewBuf] :
                  b \in ValueRings \cup {NewBuf}}
    /\ ref = [r \in Bufs |-> <<>>]
    /\ ret = NoRet
    /\ out = NoRet
    /\ oob = NoOOB
    /\ phase = "none"
    /\ exp = NoExp
    /\ ptr = [r \in Bufs |-> IF r = 1 /\ capacity(rb[1]) > 0 THEN 1 ELSE 0]
    /\ m_mutex = [r \in Bufs |-> 0]
    /\ pc = [t \in Threads |-> Idle]

SpecPush == InitPush /\ [][NextPush]_vars

\* ---- C22 ----
\* C22: pop_front(n) and pop_back(n) with n >= size() clear the buffer
\* (size 0, front and end 0, same capacity) and are no error; with
\* 1 <= n < size() they remove the n oldest, respectively the n newest,
\* elements and leave the others in order
PopNRemoves ==
    /\ exp.st \in {"pop_front_n", "pop_back_n"} => phase = exp.st
    /\ (phase \in {"pop_front_n", "pop_back_n"} /\ exp.n >= 1) =>
           IF exp.n >= size(exp.pre)
           THEN /\ size(rb[1]) = 0
                /\ rb[1].m_front = 0
                /\ rb[1].m_end = 0
                /\ capacity(rb[1]) = capacity(exp.pre)
           ELSE /\ size(rb[1]) = size(exp.pre) - exp.n
                /\ Content(rb[1]) =
                       IF phase = "pop_front_n"
                       THEN SubSeq(Content(exp.pre), exp.n + 1, size(exp.pre))
                       ELSE SubSeq(Content(exp.pre), 1, size(exp.pre) - exp.n)

\* pop_front(n) has removed some but not all elements of a buffer whose
\* front then wrapped, and pop_back(n) can do the same
PoppedNWrapped ==
    /\ phase = "pop_front_n"
    /\ exp.n >= 1
    /\ exp.n < size(exp.pre)
    /\ exp.pre.m_front + exp.n >= capacity(exp.pre)

\* ---- C23 ----
\* C23: pop_front(array, n) with n >= 1 returns min(n, size()), writes that
\* many elements, the oldest ones in logical order, to array, and decreases
\* size() by the returned count; it never fails on a short buffer
PopFrontArrayClamps ==
    /\ exp.st = "pop_front_array" => phase = exp.st
    /\ (phase = "pop_front_array" /\ exp.n >= 1) =>
           LET k == Min(exp.n, size(exp.pre)) IN
           /\ ret[1] = <<k>>
           /\ out[1] = SubSeq(Content(exp.pre), 1, k)
           /\ size(rb[1]) = size(exp.pre) - k

\* pop_front(array, n) asked for more than a wrapped buffer held
PoppedShort ==
    /\ phase = "pop_front_array"
    /\ exp.n > size(exp.pre)
    /\ size(exp.pre) >= 2
    /\ exp.pre.m_front + size(exp.pre) > capacity(exp.pre)

\* ---- C24 ----
\* the calls that take a count
CountOps == {"push_back_value", "push_back_array", "pop_front_n",
             "pop_back_n", "pop_front_array", "push_back_rb"}

\* C24: push_back(value, n), push_back(array, n), pop_front(n),
\* pop_back(n) and pop_front(array, n) with n <= 0, and push_back(ring) of
\* an empty ring, are no error and leave front, end, size and the stored
\* elements as they were; pop_front(array, n) then returns 0
NonPositiveIsNoOp ==
    (exp.st \in CountOps /\ exp.n <= 0) =>
        /\ phase = exp.st
        /\ rb[1] = exp.pre
        /\ exp.st = "pop_front_array" => ret[1] = <<0>>

\* a call with a count of zero or less was made on a buffer that holds
\* elements and whose front is not at slot 0
NonPositiveCalled ==
    /\ phase \in {"pop_front_n", "push_back_array"}
    /\ exp.n <= 0
    /\ size(exp.pre) > 0
    /\ exp.pre.m_front > 0

\* ---- C25 ----
\* the calls that push
Pushes == PushOps \cup {"assign"}

\* the room the call finds: operator= clears first
Room(e) ==
    capacity(e.pre) - (IF e.st = "assign" THEN 0 ELSE size(e.pre))

\* C25: a push_back(v), push_back(value, n), push_back(array, n),
\* push_back(ring) or assignment of more elements than there is room for
\* fails the capacity assertion: it never runs to its end, overwrites no
\* element and does not grow the buffer
PushBeyondCapacityAsserts ==
    (exp.st \in Pushes /\ exp.n > Room(exp)) =>
        /\ phase = "abort"
        /\ capacity(rb[1]) = capacity(exp.pre)
        /\ rb[1].m_data = exp.pre.m_data
        /\ exp.st # "assign" => rb[1] = exp.pre

\* a bulk push of more elements than there was room for was made on a
\* buffer that holds elements
PushedBeyondCapacity ==
    /\ phase = "abort"
    /\ exp.st \in BulkPushOps
    /\ size(exp.pre) > 0
    /\ exp.n <= capacity(exp.pre)
    /\ exp.n > Room(exp)

\* ---- C26 ----
\* the calls that read an element
ReadOps == {"front", "back", "pop_front", "pop_back"}

\* C26: front(), back(), pop_front() and pop_back() on an empty buffer fail
\* an assertion and change no state
EmptyReadAsserts ==
    (exp.st \in ReadOps /\ size(exp.pre) = 0) =>
        /\ phase = "abort"
        /\ rb[1] = exp.pre

\* a read was tried on an allocated buffer that had been emptied with its
\* front away from slot 0
ReadEmpty ==
    /\ phase = "abort"
    /\ exp.st \in ReadOps
    /\ capacity(exp.pre) > 0
    /\ exp.pre.m_front > 0

\* ---- C27 ----
\* C27: resize_allocation(n) with n <= 0 fails an assertion and neither
\* allocates nor resets, so that an allocated buffer never has a capacity
\* of 0 or less
ResizeAllocationRejectsNonPositive ==
    /\ (exp.st = "resize_allocation" /\ exp.n <= 0) =>
           /\ phase = "abort"
           /\ rb[1] = exp.pre
    /\ ptr[1] # 0 => capacity(rb[1]) > 0

\* ---- C28 ----
\* C28: pop_back() right after push_back(x) returns x and restores size()
\* and the content; pop_back() returns operator[](size() - 1), and moves an
\* end of 0 to capacity - 1
PopBackMirrorsPushBack ==
    phase = "pop_back" =>
        /\ ret[1] = <<at(exp.pre, size(exp.pre) - 1)>>
        /\ exp.pre.m_end = 0 => rb[1].m_end = capacity(exp.pre) - 1
        /\ exp.prev # <<>> =>
               /\ ret[1] = exp.prev[1].vals
               /\ size(rb[1]) = size(exp.prev[1].pre)
               /\ Content(rb[1]) = Content(exp.prev[1].pre)

\* ---- push_front ----
MutPushFrontArray(b, array, array_size) ==
    IF array_size <= 0 THEN {Outcome(b, FALSE, <<>>, <<>>)}
    ELSE LET f1 == b.m_front - array_size
             f2 == IF f1 < 0 THEN f1 + b.m_size_max ELSE f1
         IN {Outcome([b EXCEPT !.m_data = memory_copy_nolock(
                                   b.m_data, f2, SubSeq(array, 1, array_size)),
                               !.m_front = f2, !.m_size = @ + array_size],
                     RunOOB(b, f2, array_size), <<>>, <<>>)}

\* push_front(v): the front index moves one slot down, from 0 to
\* capacity - 1, and v is stored there
push_front_nolock(b, v) ==
    LET f1 == b.m_front - 1
        f2 == IF f1 < 0 THEN b.m_size_max - 1 ELSE f1
    IN {Outcome([b EXCEPT !.m_data = Store(b.m_data, f2, v),
                          !.m_front = f2, !.m_size = @ + 1],
                ~InBlock(b, f2), <<>>, <<>>)}

\* push_front(array, array_size): the front index moves array_size slots
\* down, wrapping below 0, and the array is written from there on in one
\* segment, or in two when the run crosses the end of the block
push_front_nolock_array(b, array, array_size) ==
    IF array_size <= 0 THEN {Outcome(b, FALSE, <<>>, <<>>)}
    ELSE LET f1 == b.m_front - array_size
             f2 == IF f1 < 0 THEN f1 + b.m_size_max ELSE f1
         IN IF f2 + array_size <= b.m_size_max
            THEN {Outcome([b EXCEPT !.m_data = memory_copy_nolock(
                                        b.m_data, f2, SubSeq(array, 1, array_size)),
                                    !.m_front = f2, !.m_size = @ + array_size],
                          RunOOB(b, f2, array_size), <<>>, <<>>)}
            ELSE LET seg1size == b.m_size_max - f2
                     seg2size == array_size - seg1size
                     d1 == memory_copy_nolock(b.m_data, f2,
                                              SubSeq(array, 1, seg1size))
                     d2 == memory_copy_nolock(d1, 0,
                                              SubSeq(array, seg1size + 1, array_size))
                 IN {Outcome([b EXCEPT !.m_data = d2, !.m_front = f2,
                                       !.m_size = @ + array_size],
                             RunOOB(b, f2, seg1size) \/ RunOOB(b, 0, seg2size),
                             <<>>, <<>>)}

\* push_front(value, nb_values): the same with nb_values copies of value
push_front_nolock_value(b, value, nb_values) ==
    push_front_nolock_array(b, Fill(value, nb_values), nb_values)

KPushFront(v) ==
    /\ Running
    /\ LET c == Call("push_front", 1, <<v>>) IN
       IF memory_check_size_nolock(rb[1], 1)
       THEN \E o \in push_front_nolock(rb[1], v) : Ran(c, o, ptr[1])
       ELSE Stopped("abort", c, rb[1], ptr[1])

KPushFrontValue(v, n) ==
    /\ Running
    /\ LET c == Call("push_front_value", n, Fill(v, n)) IN
       IF n > 0 => memory_check_size_nolock(rb[1], n)
       THEN \E o \in push_front_nolock_value(rb[1], v, n) : Ran(c, o, ptr[1])
       ELSE Stopped("abort", c, rb[1], ptr[1])

\* push_front(array, n) with any array of n elements
KPushFrontArray(n) ==
    /\ Running
    /\ IF n > 0 => memory_check_size_nolock(rb[1], n)
       THEN \E array \in Arrays(n) :
                \E o \in push_front_nolock_array(rb[1], array, n) :
                    Ran(Call("push_front_array", n, array), o, ptr[1])
       ELSE Stopped("abort", Call("push_front_array", n, <<>>), rb[1], ptr[1])

\* the pushes at the front and the pops from the front that make room
NextFront ==
    \/ \E v \in Val : KPushFront(v)
    \/ \E v \in Val, n \in (0 - 1) .. (RingCap + 1) : KPushFrontValue(v, n)
    \/ \E n \in (0 - 1) .. (RingCap + 1) : KPushFrontArray(n)
    \/ KPopFront
    \/ \E n \in 1 .. RingCap : KPopFrontArray(n)

\* buffer 1 is allocated with a capacity up to RingCap and holds copies of
\* one value from any front
InitFront ==
    /\ rb \in {[r \in Bufs |-> IF r = 1 THEN RingOf(c, f, Fill(v, n)) ELSE NewBuf] :
                  c \in 1 .. RingCap, f \in 0 .. (RingCap - 1),
                  n \in 0 .. RingCap, v \in Val}
    /\ rb[1].m_front < rb[1].m_size_max
    /\ rb[1].m_size <= rb[1].m_size_max
    /\ ref = [r \in Bufs |-> <<>>]
    /\ ret = NoRet
    /\ out = NoRet
    /\ oob = NoOOB
    /\ phase = "none"
    /\ exp = NoExp
    /\ ptr = [r \in Bufs |-> IF r = 1 THEN 1 ELSE 0]
    /\ m_mutex = [r \in Bufs |-> 0]
    /\ pc = [t \in Threads |-> Idle]

SpecFront == InitFront /\ [][NextFront]_vars

\* ---- C29 ----
\* C29: after push_front(array, n) operator[](i) is array[i] for i < n,
\* followed by the previous content in order, wherever the front was, also
\* when the front index wraps below 0; push_front(value) makes value the
\* new front()
PushFrontPrepends ==
    /\ (phase = "push_front_array" /\ exp.n >= 1) =>
           Content(rb[1]) = SubSeq(exp.vals, 1, exp.n) \o Content(exp.pre)
    /\ phase = "push_front" =>
           /\ front(rb[1]) = {exp.vals[1]}
           /\ Content(rb[1]) = exp.vals \o Content(exp.pre)

\* push_front(array, n) was made on a buffer that held elements, and the
\* array went to both ends of the block
PushedFrontWrapped ==
    /\ phase = "push_front_array"
    /\ exp.n >= 2
    /\ size(exp.pre) > 0
    /\ exp.pre.m_front > 0
    /\ exp.pre.m_front < exp.n

\* ---- dynamic allocation ----
\* the smallest capacity a growth step gives an unallocated buffer
min_capacity == 1

\* the capacity counter doubled until it holds required elements
RECURSIVE Doubled(_, _)
Doubled(c, required) == IF c >= required THEN c ELSE Doubled(2 * c, required)

\* the counter starts at the capacity, and for an unallocated buffer at
\* min_capacity or at the requested size if that is larger
grown_capacity(b, required) ==
    Doubled(IF b.m_size_max > 0 THEN b.m_size_max
            ELSE IF required > min_capacity THEN required ELSE min_capacity,
            required)

\* the grow step: a new block of the grown capacity receives the content in
\* logical order from offset 0, front = 0 and end = size
grow_nolock(b, required) ==
    {[m_size_max |-> grown_capacity(b, required), m_size |-> b.m_size,
      m_data |-> memory_copy_nolock(blk, 0, Content(b)),
      m_front |-> 0, m_end |-> b.m_size] :
        blk \in Blocks(grown_capacity(b, required))}

\* does a push of nb_new_values grow the buffer
grows(b, nb_new_values) ==
    nb_new_values > 0 /\ b.m_size + nb_new_values > b.m_size_max

\* push_back(v) with dynamic allocation enabled
dyn_push_back(b, v) ==
    IF grows(b, 1)
    THEN UNION {push_back_nolock(g, v) : g \in grow_nolock(b, b.m_size + 1)}
    ELSE push_back_nolock(b, v)

\* push_back(array, array_size) with dynamic allocation enabled
dyn_push_back_array(b, array, array_size) ==
    IF grows(b, array_size)
    THEN UNION {push_back_nolock_array(g, array, array_size) :
                   g \in grow_nolock(b, b.m_size + array_size)}
    ELSE push_back_nolock_array(b, array, array_size)

\* the m_data pointer after a push of nb_new_values: the grow step
\* allocates the new block while the old one is still there
grow_data(b, p, nb_new_values) ==
    IF grows(b, nb_new_values) THEN new_block({p}) ELSE {p}

\* what the pushes of the growing buffer keep of the call
Grown(c, o, p) ==
    /\ rb' = [rb EXCEPT ![1] = o.b]
    /\ oob' = [NoOOB EXCEPT ![1] = o.oob]
    /\ ptr' = [ptr EXCEPT ![1] = p]
    /\ phase' = c.op
    /\ exp' = [st |-> c.op, n |-> c.n, vals |-> c.vals, pre |-> rb[1],
               prev |-> <<>>]
    /\ ret' = NoRet
    /\ out' = NoRet
    /\ UNCHANGED <<ref, m_mutex, pc>>

\* the pushes stay within RingCap elements
DPushBack(v) ==
    /\ Running
    /\ rb[1].m_size + 1 <= RingCap
    /\ \E o \in dyn_push_back(rb[1], v) :
           \E p \in grow_data(rb[1], ptr[1], 1) :
               Grown(Call("dyn_push_back", 1, <<v>>), o, p)

DPushBackArray(n) ==
    /\ Running
    /\ rb[1].m_size + n <= RingCap
    /\ \E array \in Arrays(n) :
           \E o \in dyn_push_back_array(rb[1], array, n) :
               \E p \in grow_data(rb[1], ptr[1], n) :
                   Grown(Call("dyn_push_back_array", n, array), o, p)

\* a buffer with dynamic allocation enabled: the pushes at the back and the
\* pops from the front
NextGrow ==
    \/ \E v \in Val : DPushBack(v)
    \/ \E n \in Counts : DPushBackArray(n)
    \/ KPopFront
    \/ \E n \in Counts : KPopFrontN(n)

\* set_dynamic_allocation(true) on a buffer that is unallocated or was
\* allocated and used
SpecGrow == InitPush /\ [][NextGrow]_vars

\* ---- C30 ----
\* C30: with dynamic allocation enabled a push never fails for lack of
\* room: capacity() does not decrease, ends >= the new size(), the content
\* is the previous content followed by the pushed elements in order, also
\* when the content was wrapped before the growth, and m_end < capacity()
\* after the push
GrowthKeepsContent ==
    (phase \in {"dyn_push_back", "dyn_push_back_array"} /\ exp.n >= 1) =>
        /\ capacity(rb[1]) >= capacity(exp.pre)
        /\ size(rb[1]) = size(exp.pre) + exp.n
        /\ capacity(rb[1]) >= size(rb[1])
        /\ Content(rb[1]) = Content(exp.pre) \o SubSeq(exp.vals, 1, exp.n)
        /\ rb[1].m_end < capacity(rb[1])
        /\ ~oob[1]

\* ---- shrink_to_fit ----
MutShrinkToFit(b) ==
    {[m_size_max |-> IF b.m_size > 1 THEN b.m_size ELSE 1, m_size |-> b.m_size,
      m_data |-> memory_copy_nolock(blk, 0,
                     [i \in 1 .. b.m_size |-> b.m_data[(i - 1) % b.m_size_max]]),
      m_front |-> 0, m_end |-> b.m_size] :
        blk \in Blocks(IF b.m_size > 1 THEN b.m_size ELSE 1)}

\* shrink_to_fit(): a new block of max(1, size) slots receives the content
\* in logical order from offset 0, front = 0 and end = size
shrink_to_fit(b) ==
    {[m_size_max |-> IF b.m_size > 1 THEN b.m_size ELSE 1, m_size |-> b.m_size,
      m_data |-> memory_copy_nolock(blk, 0, Content(b)),
      m_front |-> 0, m_end |-> b.m_size] :
        blk \in Blocks(IF b.m_size > 1 THEN b.m_size ELSE 1)}

KShrinkToFit ==
    /\ Running
    /\ \E g \in shrink_to_fit(rb[1]) : \E p \in new_block({ptr[1]}) :
           Ran(Call("shrink_to_fit", 0, <<>>), Outcome(g, FALSE, <<>>, <<>>), p)

\* shrink_to_fit() between single pushes and pops, from every layout
NextShrink ==
    \/ KShrinkToFit
    \/ \E v \in Val : KPushBack(v)
    \/ KPopFront

SpecShrink == InitFront /\ [][NextShrink]_vars

\* ---- C31 ----
\* C31: shrink_to_fit() leaves capacity() == max(1, size()) with size() and
\* every operator[](i) as before, from wrapped layouts and from the empty
\* buffer (capacity 1)
ShrinkToFitKeepsContent ==
    phase = "shrink_to_fit" =>
        /\ capacity(rb[1]) = (IF size(exp.pre) > 1 THEN size(exp.pre) ELSE 1)
        /\ size(rb[1]) = size(exp.pre)
        /\ Content(rb[1]) = Content(exp.pre)

\* shrink_to_fit() ran on a wrapped content of two elements or more
ShrunkWrapped ==
    /\ phase = "shrink_to_fit"
    /\ size(exp.pre) >= 2
    /\ exp.pre.m_front + size(exp.pre) > capacity(exp.pre)
    /\ Content(exp.pre)[1] # Content(exp.pre)[2]

\* ---- push_back(other, start, count) ----
MutPushBackSegment(b, src, start, count) ==
    LET n == Min(count, src.m_size) IN
    IF Min(count, src.m_size - start) <= 0 THEN {Outcome(b, FALSE, <<>>, <<>>)}
    ELSE LET vals == [k \in 1 .. n |-> at(src, start + k - 1)]
             seg1size == Min(n, b.m_size_max - b.m_end)
             d1 == memory_copy_nolock(b.m_data, b.m_end, SubSeq(vals, 1, seg1size))
             d2 == memory_copy_nolock(d1, 0, SubSeq(vals, seg1size + 1, n))
         IN {Outcome([b EXCEPT !.m_data = d2,
                               !.m_end = (@ + n) % b.m_size_max,
                               !.m_size = @ + n],
                     RunOOB(b, b.m_end, seg1size), <<>>, <<>>)}

\* push_back(other, start, count): count is cut to other.size() - start;
\* the elements other[start], other[start+1], ... are written from m_end on
\* in one segment, or in two when the run crosses the end of the block, and
\* m_end is the slot after the last one written
push_back_nolock_segment(b, src, start, count) ==
    LET n == Min(count, src.m_size - start) IN
    IF n <= 0 THEN {Outcome(b, FALSE, <<>>, <<>>)}
    ELSE LET vals == [k \in 1 .. n |-> at(src, start + k - 1)]
             seg1size == Min(n, b.m_size_max - b.m_end)
             d1 == memory_copy_nolock(b.m_data, b.m_end, SubSeq(vals, 1, seg1size))
             d2 == memory_copy_nolock(d1, 0, SubSeq(vals, seg1size + 1, n))
         IN {Outcome([b EXCEPT !.m_data = d2,
                               !.m_end = (@ + n) % b.m_size_max,
                               !.m_size = @ + n],
                     RunOOB(b, b.m_end, seg1size), <<>>, <<>>)}

\* the call records the source's content, the start and the count
KPushBackSegment(src, start, count) ==
    /\ Running
    /\ LET n == Min(count, src.m_size - start)
           c == Call("push_back_segment", count, <<Content(src), start>>) IN
       IF n > 0 => memory_check_size_nolock(rb[1], n)
       THEN \E o \in push_back_nolock_segment(rb[1], src, start, count) :
                Ran(c, o, ptr[1])
       ELSE Stopped("abort", c, rb[1], ptr[1])

\* the source rings: capacity MaxCap, any front, s elements that count up
\* from d (modulo the number of values), so that neighbours differ
Ramps ==
    {RingOf(MaxCap, f, [i \in 1 .. s |-> (d + i) % (MaxVal + 1)]) :
        f \in 0 .. (MaxCap - 1), s \in 0 .. MaxCap, d \in Val}

\* pushes of a segment of a source ring, with a count up to one more than
\* what the source holds after start, and single pops
NextSegment ==
    \/ \E src \in Ramps : \E start \in 0 .. src.m_size :
           \E count \in 0 .. (src.m_size - start + 1) :
               KPushBackSegment(src, start, count)
    \/ KPopFront

SpecSegment == InitPush /\ [][NextSegment]_vars

\* ---- C32 ----
\* C32: push_back(other, start, count) appends exactly
\* min(count, other.size() - start) elements other[start], other[start+1],
\* ... in order; a count that reaches past the source's size is cut and is
\* not an error
SegmentAppendsTruncated ==
    phase = "push_back_segment" =>
        LET src == exp.vals[1]
            start == exp.vals[2]
            n == Min(exp.n, Len(src) - start)
        IN Content(rb[1]) = Content(exp.pre) \o SubSeq(src, start + 1, start + n)

\* a segment was pushed with a count beyond the source's size, from a start
\* inside the source, onto a buffer that held an element
SegmentTruncated ==
    /\ phase = "push_back_segment"
    /\ exp.vals[2] >= 1
    /\ exp.vals[2] < Len(exp.vals[1])
    /\ exp.n > Len(exp.vals[1]) - exp.vals[2]
    /\ size(exp.pre) >= 1

\* ---- time_elapsed ----
\* buffer 1 is m_elapsed, buffer 2 is m_proced_duration; m_size_max is
\* their capacity

\* what a call of time_elapsed leaves: the two buffers, and the call
Timed(op, o1, o2, d) ==
    /\ rb' = [rb EXCEPT ![1] = o1.b, ![2] = o2.b]
    /\ oob' = [NoOOB EXCEPT ![1] = o1.oob, ![2] = o2.oob]
    /\ phase' = op
    /\ exp' = [st |-> op, seq |-> d]
    /\ ret' = NoRet
    /\ out' = NoRet
    /\ UNCHANGED <<ref, ptr, m_mutex, pc>>

\* the buffer end() pushes to: the oldest entry is popped first when the
\* window is full
evicted(b) ==
    IF b.m_size_max > 0 /\ b.m_size + 1 > b.m_size_max
    THEN {o.b : o \in pop_front_nolock(b)} ELSE {b}

\* start() only takes the time
start ==
    /\ phase # "start"
    /\ Timed("start", Outcome(rb[1], FALSE, <<>>, <<>>),
             Outcome(rb[2], FALSE, <<>>, <<>>), <<>>)

\* end(proced_duration): diff is the time since start()
end(diff, proced_duration) ==
    \E b1 \in evicted(rb[1]), b2 \in evicted(rb[2]) :
        \E o1 \in push_back_nolock(b1, diff) :
            \E o2 \in push_back_nolock(b2, proced_duration) :
                Timed("end", o1, o2, <<diff>>)

\* merge(te) when the merged counts fit
merge(te_elapsed, te_proced_duration) ==
    /\ size(te_elapsed) = size(te_proced_duration)
    /\ size(rb[1]) + size(te_elapsed) <= rb[1].m_size_max
    /\ \E o1 \in push_back_nolock_rb(rb[1], te_elapsed) :
           \E o2 \in push_back_nolock_rb(rb[2], te_proced_duration) :
               Timed("merge", o1, o2, <<>>)

reset ==
    \E o1 \in clear(rb[1]), o2 \in clear(rb[2]) : Timed("reset", o1, o2, <<>>)

NextTime ==
    \/ start
    \/ \E diff \in Val, proced_duration \in Val : end(diff, proced_duration)
    \/ \E e \in ValueRings, d \in ValueRings : merge(e, d)
    \/ reset

\* time_elapsed(size_max): both buffers allocated with size_max slots and
\* cleared
InitTime ==
    /\ \E c \in Caps : rb \in [Bufs -> Fresh({c})]
    /\ ref = [r \in Bufs |-> <<>>]
    /\ ret = NoRet
    /\ out = NoRet
    /\ oob = NoOOB
    /\ phase = "none"
    /\ exp = NoExp
    /\ ptr = [r \in Bufs |-> r]
    /\ m_mutex = [r \in Bufs |-> 0]
    /\ pc = [t \in Threads |-> Idle]

SpecTime == InitTime /\ [][NextTime]_vars

\* ---- C33 ----
\* C33: time_elapsed is a sliding window of the last size_max intervals:
\* size() <= size_max(), the elapsed and proced-duration buffers hold the
\* same number of entries, and after end() elapsed_last() is the interval
\* that end() recorded, also when end() evicted the oldest entry
SlidingWindow ==
    /\ size(rb[1]) <= rb[1].m_size_max
    /\ size(rb[1]) = size(rb[2])
    /\ phase = "end" =>
           /\ size(rb[1]) > 0
           /\ at(rb[1], size(rb[1]) - 1) = exp.seq[1]
           /\ ~oob[1] /\ ~oob[2]

\* ---- operator[] ----
\* a % m of C++ for m > 0: the result has the sign of a
c_rem(a, m) == IF a >= 0 THEN a % m ELSE 0 - ((0 - a) % m)

\* operator[](n) with asserts enabled: assert(n < m_size), then the read
\* of m_data[(m_front + n) % m_size_max]
KAt(n) ==
    /\ Running
    /\ LET c == Call("at", n, <<>>)
           i == c_rem(rb[1].m_front + n, rb[1].m_size_max) IN
       IF n < rb[1].m_size
       THEN \E v \in ReadSlot(rb[1], i) :
                Ran(c, Outcome(rb[1], ~InBlock(rb[1], i), <<v>>, <<>>), ptr[1])
       ELSE Stopped("abort", c, rb[1], ptr[1])

\* operator[] with any index, between single pushes and pops
NextAt ==
    \/ \E n \in (0 - 1) .. RingCap : KAt(n)
    \/ \E v \in Val : KPushBack(v)
    \/ KPopFront

SpecAt == InitFront /\ [][NextAt]_vars

\* ---- C34 ----
\* C34: operator[](n) with n < 0 or n >= size() is stopped by the assert
\* and reads no slot; with 0 <= n < size() it returns physical slot
\* (front + n) mod capacity
IndexChecked ==
    (phase \in {"at", "abort"} /\ exp.st = "at") =>
        IF exp.n < 0 \/ exp.n >= size(exp.pre)
        THEN phase = "abort"
        ELSE /\ phase = "at"
             /\ ret[1] = <<exp.pre.m_data[(exp.pre.m_front + exp.n)
                                              % exp.pre.m_size_max]>>
             /\ ~oob[1]

\* ---- segments of the bulk calls ----
\* one memory copy (or fill loop): len elements from offset src of the
\* source to offset dst of the destination
Seg(dst, src, len) == [dst |-> dst, src |-> src, len |-> len]

MutFillSegments(b, n) ==
    IF b.m_end + n < b.m_size_max
    THEN <<Seg(b.m_end, 0, n)>>
    ELSE LET seg1size == b.m_size_max - b.m_end - 1
             seg2size == n - seg1size
         IN <<Seg(b.m_end, 0, seg1size), Seg(0, seg1size, seg2size)>>

\* push_back(value, n) and push_back(array, n), n > 0: the copies into
\* m_data; src is the offset in the array
fill_segments(b, n) ==
    IF b.m_end + n <= b.m_size_max
    THEN <<Seg(b.m_end, 0, n)>>
    ELSE LET seg1size == b.m_size_max - b.m_end
             seg2size == n - seg1size
         IN <<Seg(b.m_end, 0, seg1size), Seg(0, seg1size, seg2size)>>

\* pop_front(array, n) with n already cut to m_size: the copies out of
\* m_data; dst is the offset in the array
pop_segments(b, n) ==
    IF b.m_front + n <= b.m_size_max
    THEN <<Seg(0, b.m_front, n)>>
    ELSE LET seg1size == b.m_size_max - b.m_front
             seg2size == n - seg1size
         IN <<Seg(0, b.m_front, seg1size), Seg(seg1size, 0, seg2size)>>

\* push_back(rb), rb.size() > 0: the copies from rb.m_data into m_data
rb_segments(b, src) ==
    IF b.m_end + src.m_size <= b.m_size_max
    THEN IF src.m_front + src.m_size <= src.m_size_max
         THEN <<Seg(b.m_end, src.m_front, src.m_size)>>
         ELSE LET seg1size == src.m_size_max - src.m_front
                  seg2size == src.m_size - seg1size
              IN <<Seg(b.m_end, src.m_front, seg1size),
                   Seg(b.m_end + seg1size, 0, seg2size)>>
    ELSE IF src.m_front + src.m_size <= src.m_size_max
         THEN LET seg1size == b.m_size_max - b.m_end
                  seg2size == src.m_size - seg1size
              IN <<Seg(b.m_end, src.m_front, seg1size),
                   Seg(0, src.m_front + seg1size, seg2size)>>
         ELSE IF (src.m_size_max - src.m_front) < (b.m_size_max - b.m_end)
         THEN LET seg1size == src.m_size_max - src.m_front
                  seg2size == (b.m_size_max - b.m_end) - seg1size
                  seg3size == src.m_size - seg1size - seg2size
              IN <<Seg(b.m_end, src.m_front, seg1size),
                   Seg(b.m_end + seg1size, 0, seg2size),
                   Seg(0, seg2size, seg3size)>>
         ELSE LET seg1size == b.m_size_max - b.m_end
                  seg2size == (src.m_size_max - src.m_front) - seg1size
                  seg3size == src.m_size - seg1size - seg2size
              IN <<Seg(b.m_end, src.m_front, seg1size),
                   Seg(0, src.m_front + seg1size, seg2size),
                   Seg(seg2size, 0, seg3size)>>

\* the layouts of a buffer: capacity, front, end and size
Layout(b) == [m_size_max |-> b.m_size_max, m_front |-> b.m_front,
              m_end |-> b.m_end, m_size |-> b.m_size]

Layouts ==
    UNION {[m_size_max : {c}, m_front : 0 .. c, m_end : 0 .. c, m_size : 0 .. c] :
              c \in 0 .. MaxCap}

\* ---- C35 ----
RECURSIVE SegSum(_, _)
SegSum(segs, k) == IF k = 0 THEN 0 ELSE SegSum(segs, k - 1) + segs[k].len

\* the segments have lengths >= 0 that sum to n; each one that copies
\* something stays inside the destination of dcap slots and the source of
\* scap slots, and continues where the one before stopped, counted from
\* offset d0 of the destination and s0 of the source with wrap
SegsOK(segs, n, d0, dcap, s0, scap) ==
    /\ SegSum(segs, Len(segs)) = n
    /\ \A k \in 1 .. Len(segs) :
           /\ segs[k].len >= 0
           /\ segs[k].len > 0 =>
                  /\ segs[k].dst >= 0 /\ segs[k].dst + segs[k].len <= dcap
                  /\ segs[k].src >= 0 /\ segs[k].src + segs[k].len <= scap
                  /\ segs[k].dst = (d0 + SegSum(segs, k - 1)) % dcap
                  /\ segs[k].src = (s0 + SegSum(segs, k - 1)) % scap

MutPopFrontRbChecked(a, b) ==
    IF size(a) > 0 /\ ~memory_check_size_nolock(b, size(a))
    THEN {[a |-> clear_nolock(a), b |-> b, oob |-> FALSE, ret |-> <<>>,
           stopped |-> TRUE]}
    ELSE {[a |-> o.b, b |-> o.rb, oob |-> o.oob, ret |-> o.ret,
           stopped |-> FALSE] : o \in pop_front_nolock_rb(a, b)}

\* a.pop_front(b): b.push_back_nolock(a) runs first and its assert stops
\* the program before b is written and before a is cleared
pop_front_rb_checked(a, b) ==
    IF size(a) > 0 /\ ~memory_check_size_nolock(b, size(a))
    THEN {[a |-> a, b |-> b, oob |-> FALSE, ret |-> <<>>, stopped |-> TRUE]}
    ELSE {[a |-> o.b, b |-> o.rb, oob |-> o.oob, ret |-> o.ret,
           stopped |-> FALSE] : o \in pop_front_nolock_rb(a, b)}

\* rb[1].pop_front(rb[2]); exp keeps both buffers as they were
KPopFrontRb ==
    /\ Running
    /\ \E o \in pop_front_rb_checked(rb[1], rb[2]) :
           /\ rb' = [rb EXCEPT ![1] = o.a, ![2] = o.b]
           /\ ret' = [NoRet EXCEPT ![1] = o.ret]
           /\ oob' = [NoOOB EXCEPT ![1] = o.oob]
           /\ phase' = IF o.stopped THEN "abort" ELSE "pop_front_rb"
           /\ exp' = [st |-> "pop_front_rb", n |-> size(rb[1]), vals |-> <<>>,
                      pre |-> rb[1], prev |-> <<rb[2]>>]
    /\ out' = NoRet
    /\ UNCHANGED <<ref, ptr, m_mutex, pc>>

\* the pushes on buffer 1 and rb[1].pop_front(rb[2])
NextDrain ==
    \/ \E v \in Val : KPushBack(v)
    \/ \E v \in Val, n \in Counts : KPushBackValue(v, n)
    \/ \E n \in Counts : \E array \in ValueArrays(n) : KPushBackArray(array, n)
    \/ \E src \in ValueRings : KPushBackRb(src)
    \/ KPopFrontRb

\* two allocated buffers: the first holds copies of one value, the second
\* zeros
InitDrain ==
    /\ rb \in [Bufs -> ValueRings]
    /\ \A i \in DOMAIN rb[2].m_data : rb[2].m_data[i] = 0
    /\ ref = [r \in Bufs |-> <<>>]
    /\ ret = NoRet
    /\ out = NoRet
    /\ oob = NoOOB
    /\ phase = "none"
    /\ exp = NoExp
    /\ ptr = [r \in Bufs |-> r]
    /\ m_mutex = [r \in Bufs |-> 0]
    /\ pc = [t \in Threads |-> Idle]

SpecDrain == InitDrain /\ [][NextDrain]_vars

\* ---- C36 ----
\* C36: push_back(v), push_back(value, n), push_back(array, n) and
\* push_back(ring) test the capacity before any slot, front, end or size
\* changes, and a.pop_front(b) tests b's capacity before a is cleared: a
\* failed capacity assertion leaves both buffers as they were
FailedPushChangesNothing ==
    (phase = "abort" /\ exp.st \in PushOps \cup {"pop_front_rb"}) =>
        /\ rb[1] = exp.pre
        /\ exp.st = "pop_front_rb" => rb[2] = exp.prev[1]

\* a.pop_front(b) failed b's capacity assertion with elements in both
DrainRefused ==
    /\ phase = "abort"
    /\ exp.st = "pop_front_rb"
    /\ size(rb[1]) > 0
    /\ size(rb[2]) > 0
    /\ size(rb[1]) <= capacity(rb[2])

\* ---- self-assignment ----
MutSelfAssign(b) == assign(b, b)

\* a = a: rb is *this, so push_back_nolock(rb) reads the buffer that
\* clear_nolock() has just emptied
self_assign(b) == push_back_nolock_rb(clear_nolock(b), clear_nolock(b))

KSelfAssign ==
    /\ Running
    /\ \E o \in self_assign(rb[1]) : Ran(Call("self_assign", 0, <<>>), o, ptr[1])

\* a = a between single pushes and pops
NextSelf ==
    \/ KSelfAssign
    \/ \E v \in Val : KPushBack(v)
    \/ KPopFront

SpecSelf == InitFront /\ [][NextSelf]_vars

\* ---- C37 ----
\* C37: a = a does not keep the content: the target is cleared before the
\* source is read, so a is empty afterwards (size() == 0, front == end ==
\* 0) and capacity() is what it was
SelfAssignmentClears ==
    phase = "self_assign" =>
        /\ size(rb[1]) = 0
        /\ rb[1].m_front = 0
        /\ rb[1].m_end = 0
        /\ capacity(rb[1]) = capacity(exp.pre)
        /\ ptr[1] = 1

\* a = a was made on a buffer that held elements
SelfAssignedNonEmpty ==
    /\ phase = "self_assign"
    /\ size(exp.pre) >= 1
    /\ exp.pre.m_front > 0

\* ---- progress of the threads ----
\* the calls of the threads without the unguarded accessors
\* the guarded member functions the two threads call on each other's
\* buffers: the three with a ringbuffer argument, and push_back(v) to fill
LiveOps == RingArgOps \cup {"push_back"}

\* thread t calls one of them on buffer x, the other buffer being the
\* argument: the guard is constructed next
TCallRing(t) ==
    \E op \in LiveOps, x \in Bufs :
        /\ pc[t].at \in {"idle", "returned"}
        /\ pc' = [pc EXCEPT ![t] =
                     [at |-> "waiting", op |-> op, self |-> x,
                      arg |-> (IF op \in RingArgOps
                               THEN CHOOSE y \in Bufs : y # x ELSE 0),
                      held |-> pc[t].held]]
        /\ UNCHANGED <<rb, ref, ret, out, oob, phase, exp, ptr, m_mutex>>

NextLive ==
    \E t \in Threads :
        \/ TCallRing(t)
        \/ TLock(t)
        \/ TAcquire(t)
        \/ TRelock(t)
        \/ TThrown(t)
        \/ TFinish(t)
        \/ TAbort(t)
        \/ TUnlock(t)

\* a thread that is in a call goes on: the body that holds the guard runs
\* to its end or to the assert that fails, and a thread that finds the
\* mutex free again and again gets it; nothing makes a thread call, lock or
\* unlock
SpecLive ==
    /\ InitThreads
    /\ [][NextLive]_vars
    /\ \A t \in Threads :
           /\ WF_vars(TFinish(t) \/ TAbort(t))
           /\ WF_vars(TThrown(t))
           /\ WF_vars(TRelock(t))
           /\ SF_vars(TAcquire(t))

\* ---- C38 ----
\* a mutex owned by a thread is the one of the buffer whose guarded member
\* function the thread is inside, or the one it took with lock()
OwnMutexOnly ==
    \A t \in Threads : \A x \in Bufs :
        m_mutex[x] = t => \/ (Inside(t) /\ pc[t].self = x)
                          \/ pc[t].at = "aborted" /\ pc[t].self = x
                          \/ pc[t].held = x

\* an assert has stopped the program
Aborted == \E t \in Threads : pc[t].at = "aborted"

\* every lock() is followed by unlock()
Unlocks == \A t \in Threads : (pc[t].held # 0) ~> (pc[t].held = 0)

\* every call returns, unless the program is stopped
Returns ==
    \A t \in Threads :
        (pc[t].at \in {"waiting", "locked", "deadlock"}) ~>
            (pc[t].at \in {"idle", "returned", "error"} \/ Aborted)

PopCounts == (0 - 1) .. (RingCap + 1)

NextScalar ==
    \/ \E v \in Val : KPushBack(v)
    \/ KPopFront
    \/ KPopBack
    \/ \E n \in PopCounts : KPopFrontN(n)
    \/ \E n \in PopCounts : KPopBackN(n)
    \/ KClear

\* buffer 1 as resize_allocation(C) leaves it, 1 <= C <= RingCap
InitScalar ==
    /\ rb \in {[r \in Bufs |-> IF r = 1 THEN b ELSE NewBuf] :
                  b \in Fresh(1 .. RingCap)}
    /\ ref = [r \in Bufs |-> <<>>]
    /\ ret = NoRet
    /\ out = NoRet
    /\ oob = NoOOB
    /\ phase = "none"
    /\ exp = NoExp
    /\ ptr = [r \in Bufs |-> IF r = 1 THEN 1 ELSE 0]
    /\ m_mutex = [r \in Bufs |-> 0]
    /\ pc = [t \in Threads |-> Idle]

SpecScalar == InitScalar /\ [][NextScalar]_vars

\* ---- C39 ----
\* C39: from resize_allocation(C), C >= 1, every sequence of push_back(v),
\* pop_front(), pop_back(), pop_front(n), pop_back(n) and clear() keeps
\* 0 <= front < capacity, 0 <= end < capacity and
\* end = (front + size) mod capacity
ScalarCallsKeepIndices ==
    LET b == rb[1] IN
    /\ 0 <= b.m_front /\ b.m_front < b.m_size_max
    /\ 0 <= b.m_end /\ b.m_end < b.m_size_max
    /\ b.m_end = (b.m_front + b.m_size) % b.m_size_max

\* pop_back(n) took the end back over the start of the block, values left
PoppedBackWrapped ==
    /\ phase = "pop_back_n"
    /\ exp.n >= 1
    /\ exp.n < exp.pre.m_size
    /\ exp.pre.m_end < exp.n
    /\ rb[1].m_end > rb[1].m_front

\* ---- one content at two places of the block ----
\* the calls that are valid on buffer b: a push within the capacity, a pop
\* of values the buffer holds
ValidCalls(b) ==
    {Call("push_back", 1, <<v>>) : v \in {w \in Val : size(b) < capacity(b)}}
    \cup {Call("push_back_array", Len(a), a) :
             a \in UNION {ValueArrays(n) : n \in 1 .. (capacity(b) - size(b))}}
    \cup {Call("pop_front", 1, <<>>) : k \in 1 .. Min(1, size(b))}
    \cup {Call("pop_front_array", n, <<>>) : n \in 1 .. size(b)}

\* what the call c does to buffer b
Apply(b, c) ==
    CASE c.op = "push_back" -> push_back_nolock(b, c.vals[1])
      [] c.op = "push_back_array" -> push_back_nolock_array(b, c.vals, c.n)
      [] c.op = "pop_front" -> pop_front_nolock(b)
      [] c.op = "pop_front_array" -> pop_front_nolock_array(b, c.n)

\* the two buffers hold the same values in the same order, at different
\* places of their blocks
SameContentElsewhere ==
    /\ Content(rb[1]) = Content(rb[2])
    /\ rb[1].m_front # rb[2].m_front \/ rb[1].m_end # rb[2].m_end

\* one of the two buffers gets a valid call of its own
LHistory(r) ==
    /\ phase \in {"none", "history"}
    /\ \E c \in ValidCalls(rb[r]) : \E o \in Apply(rb[r], c) :
           rb' = [rb EXCEPT ![r] = o.b]
    /\ phase' = "history"
    /\ UNCHANGED <<ref, ret, out, oob, exp, ptr, m_mutex, pc>>

\* from the same content at different places on, the two buffers get the
\* same valid call
LBoth ==
    /\ phase = "both" \/ (phase = "history" /\ SameContentElsewhere)
    /\ \E c \in ValidCalls(rb[1]) \cap ValidCalls(rb[2]) :
           \E o1 \in Apply(rb[1], c), o2 \in Apply(rb[2], c) :
               /\ rb' = [r \in Bufs |-> IF r = 1 THEN o1.b ELSE o2.b]
               /\ ret' = [r \in Bufs |-> IF r = 1 THEN o1.ret ELSE o2.ret]
               /\ out' = [r \in Bufs |-> IF r = 1 THEN o1.out ELSE o2.out]
               /\ oob' = [r \in Bufs |-> IF r = 1 THEN o1.oob ELSE o2.oob]
               /\ exp' = [st |-> c.op, seq |-> c.vals]
    /\ phase' = "both"
    /\ UNCHANGED <<ref, ptr, m_mutex, pc>>

NextLayout ==
    \/ \E r \in Bufs : LHistory(r)
    \/ LBoth

SpecLayout == InitTime /\ [][NextLayout]_vars

\* ---- C40 ----
\* C40: two buffers of one capacity that hold the same sequence at
\* different physical offsets, each reached by valid calls, give the same
\* return values, size(), operator[](i), front() and back() after every
\* same sequence of valid calls
LayoutIndependent ==
    phase = "both" =>
        /\ ret[1] = ret[2]
        /\ out[1] = out[2]
        /\ size(rb[1]) = size(rb[2])
        /\ Content(rb[1]) = Content(rb[2])
        /\ size(rb[1]) > 0 =>
               /\ \A v \in front(rb[1]), w \in front(rb[2]) : v = w
               /\ \A v \in back(rb[1]), w \in back(rb[2]) : v = w

====
